---- MODULE Spec2Model ----
\* Login / lockout state machine and the settings cache that parameterizes it
\* (handlers/login.py, utils/app_settings.py, utils/responses.py).
EXTENDS Integers, Sequences, FiniteSets, TLC

\* ---------------------------------------------------------------- bounds

\* capacity of the login-attempt log (append-only, unbounded in the program)
MaxLog == 3
\* capacity of the refresh-token store
MaxTokens == 2
\* capacity of the login-attempt log in the threshold-5 scenario
ScenarioLog == 5
\* the clock stops at MaxTime minutes
MaxTime == 32
\* store failures injected in one behaviour
MaxFaults == 1
\* capacities of the two stores where store calls fail
FaultLog == 2
FaultTokens == 1
\* capacities of the two stores where requests run concurrently
ConcLog == 2
ConcTokens == 2

\* the clock advances by one of these steps (minutes)
TickSteps == {15, 16}

\* ------------------------------------------------------- python values

PyInt(n) == [t |-> "int", v |-> n]
PyBool(b) == [t |-> "bool", v |-> b]
PyStr(s) == [t |-> "str", v |-> s]
PyNone == [t |-> "NoneType", v |-> 0]

\* bool is a subclass of int: True is 1 and False is 0 in arithmetic/comparison
PyNum(x) == IF x.t = "bool" THEN (IF x.v THEN 1 ELSE 0) ELSE x.v

\* truth value of a python object
PyTruthy(x) ==
  CASE x.t = "bool" -> x.v
    [] x.t = "int" -> x.v # 0
    [] x.t = "str" -> x.v # ""
    [] OTHER -> FALSE

\* type(value).__name__
PyTypeName(x) == x.t

\* ------------------------------------------------------ settings store

SettingKeys ==
  {"allow_public_signup", "allow_adding_new_users", "require_otp_on_registration",
   "email_verification_required", "default_public_role", "min_password_length",
   "max_failed_login_attempts", "account_lockout_duration_minutes",
   "_version", "_initialized"}

DEFAULT_SETTINGS ==
  [k \in SettingKeys |->
    CASE k = "default_public_role" -> PyStr("customer")
      [] k = "min_password_length" -> PyInt(4)
      [] k = "max_failed_login_attempts" -> PyInt(5)
      [] k = "account_lockout_duration_minutes" -> PyInt(30)
      [] k = "_version" -> PyStr("1.0")
      [] OTHER -> PyBool(TRUE)]

\* what put_item stores for a python value: numbers become Decimal
DynamoPut(x) == IF x.t = "int" THEN [t |-> "Decimal", v |-> x.v] ELSE x

\* the item written for (key, value)
SettingItem(value) ==
  [setting_value |-> DynamoPut(value), setting_type |-> PyTypeName(value)]

\* convert_dynamodb_types handing the stored value back as it is
convert_dynamodb_types_raw(x) == x

\* Decimal -> int when integral (only integral numbers are modelled)
convert_dynamodb_types(x) == IF x.t = "Decimal" THEN PyInt(x.v) ELSE x

\* load_settings marking the cache populated when the scan raises
load_settings_mark(w) ==
  IF w.up
    THEN [w EXCEPT !.cache = [k \in DOMAIN w.table |->
                                 convert_dynamodb_types(w.table[k].setting_value)],
                   !.cinit = TRUE,
                   !.scans = @ + 1]
    ELSE [w EXCEPT !.cinit = TRUE, !.scans = @ + 1]

\* load_settings on a world w: scan the table into the cache, or leave the
\* cache as it is when the scan raises; w.scans counts the scans asked of the
\* table during the operation
load_settings(w) ==
  IF w.up
    THEN [w EXCEPT !.cache = [k \in DOMAIN w.table |->
                                 convert_dynamodb_types(w.table[k].setting_value)],
                   !.cinit = TRUE,
                   !.scans = @ + 1]
    ELSE [w EXCEPT !.scans = @ + 1]

\* EnsureLoaded reloading whatever the state of the cache
EnsureLoaded_always(w) == load_settings(w)

\* the world after get_setting's "initialize cache if needed"
EnsureLoaded(w) == IF w.cinit THEN w ELSE load_settings(w)

\* lines 123-130 of get_setting: the value the cache gives for key, else the
\* caller's default, else (for None) the entry of DEFAULT_SETTINGS
cache_get(w, key, default) ==
  LET value == IF key \in DOMAIN w.cache THEN w.cache[key] ELSE default
  IN IF value.t = "NoneType" /\ key \in DOMAIN DEFAULT_SETTINGS
       THEN DEFAULT_SETTINGS[key] ELSE value

\* get_setting(key, default): value returned and world afterwards
get_setting(w, key, default) ==
  LET w1 == EnsureLoaded(w)
  IN [value |-> cache_get(w1, key, default), w |-> w1]

\* what load_settings() returns to its caller on the world w it starts from:
\* the cache object itself, or a copy of DEFAULT_SETTINGS when the scan raises
load_settings_return(w) ==
  IF w.up THEN [alias |-> TRUE, map |-> load_settings(w).cache]
  ELSE [alias |-> FALSE, map |-> DEFAULT_SETTINGS]

\* settings_table.put_item(Item = {setting_key: key, setting_value: value, ...})
put_item(table, key, value) ==
  [k \in DOMAIN table \cup {key} |->
     IF k = key THEN SettingItem(value) ELSE table[k]]

\* update_setting writing the table and leaving the cache alone
update_setting_table_only(w, key, value) ==
  IF w.up
    THEN [raised |-> FALSE,
          w |-> [w EXCEPT !.table = put_item(@, key, value)]]
  ELSE [raised |-> TRUE, w |-> w]

\* update_setting writing the cache before the table
update_setting_cache_first(w, key, value) ==
  LET w1 == [w EXCEPT !.cache = [k \in DOMAIN w.cache \cup {key} |->
                                   IF k = key THEN value ELSE w.cache[k]]]
  IN IF w.up
       THEN [raised |-> FALSE, w |-> [w1 EXCEPT !.table = put_item(@, key, value)]]
     ELSE [raised |-> TRUE, w |-> w1]

\* update_setting(key, value): put the item, then update the cache; raises
\* when the put fails
update_setting(w, key, value) ==
  IF w.up
    THEN [raised |-> FALSE,
          w |-> [w EXCEPT
                   !.table = [k \in DOMAIN w.table \cup {key} |->
                                IF k = key THEN SettingItem(value) ELSE w.table[k]],
                   !.cache = [k \in DOMAIN w.cache \cup {key} |->
                                IF k = key THEN value ELSE w.cache[k]]]]
  ELSE [raised |-> TRUE, w |-> w]

\* the keys of DEFAULT_SETTINGS in the order the dict lists them
DefaultOrder ==
  <<"allow_public_signup", "allow_adding_new_users", "require_otp_on_registration",
    "email_verification_required", "default_public_role", "min_password_length",
    "max_failed_login_attempts", "account_lockout_duration_minutes",
    "_version", "_initialized">>

\* a put number that never fails
NoFail == Len(DefaultOrder) + 1

\* lines 63-68: the loop over DEFAULT_SETTINGS from its i-th key on; the put
\* number failat raises and leaves the earlier puts in place
RECURSIVE seed_defaults(_, _, _)
seed_defaults(w, i, failat) ==
  IF i > Len(DefaultOrder) THEN [raised |-> FALSE, w |-> w, wrote |-> i - 1]
  ELSE IF i = failat THEN [raised |-> TRUE, w |-> w, wrote |-> i - 1]
  ELSE seed_defaults(
         [w EXCEPT !.table = put_item(@, DefaultOrder[i],
                                      DEFAULT_SETTINGS[DefaultOrder[i]])],
         i + 1, failat)

\* initialize_settings seeding without looking for the _initialized item
initialize_settings_reseed(w, failat) ==
  IF ~w.up \/ failat = 0 THEN [raised |-> TRUE, w |-> w, wrote |-> 0]
  ELSE seed_defaults(w, 1, failat)

\* initialize_settings(): get_item(_initialized) (the call number 0), then the
\* defaults when the item is absent; raises when a call to the table fails
initialize_settings(w, failat) ==
  IF ~w.up \/ failat = 0 THEN [raised |-> TRUE, w |-> w, wrote |-> 0]
  ELSE IF "_initialized" \in DOMAIN w.table
    THEN [raised |-> FALSE, w |-> w, wrote |-> 0]
  ELSE seed_defaults(w, 1, failat)

\* a mapping handed to a caller: the object it is (the cache itself, or an
\* object of its own) and its entries
NoMapping == [alias |-> FALSE, map |-> [k \in {} |-> PyNone]]

\* get_all_settings handing out the cache itself
get_all_settings_live(w) ==
  LET w1 == EnsureLoaded(w)
  IN [value |-> [alias |-> TRUE, map |-> w1.cache], w |-> w1]

\* get_all_settings(): a copy of the cache
get_all_settings(w) ==
  LET w1 == EnsureLoaded(w)
  IN [value |-> [alias |-> FALSE, map |-> w1.cache], w |-> w1]

\* update_settings(settings) from its i-th entry on, settings a sequence of
\* <<key, value>> in the order of the dict; the table stops answering at the
\* put number failat, update_setting raises there and the loop is left
RECURSIVE update_settings(_, _, _, _)
update_settings(w, settings, i, failat) ==
  IF i > Len(settings) THEN [raised |-> FALSE, w |-> w, done |-> i - 1]
  ELSE
    LET r == update_setting([w EXCEPT !.up = @ /\ i # failat],
                            settings[i][1], settings[i][2])
    IN IF r.raised
         THEN [raised |-> TRUE, w |-> [r.w EXCEPT !.up = w.up], done |-> i - 1]
       ELSE update_settings([r.w EXCEPT !.up = w.up], settings, i + 1, failat)

\* clear_cache()
clear_cache(w) ==
  [w EXCEPT !.cache = [k \in {} |-> PyNone], !.cinit = FALSE]

\* init_settings.main(): initialize, then list the settings; exit status 1
\* when initialize_settings raises
main(w, failat) ==
  LET r == initialize_settings(w, failat)
  IN IF r.raised THEN [exit |-> 1, w |-> r.w, wrote |-> r.wrote]
     ELSE [exit |-> 0, w |-> get_all_settings(r.w).w, wrote |-> r.wrote]

\* ---------------------------------------------------------- responses

Msg(fmt, args) == [fmt |-> fmt, args |-> args]

NoToken == [user_id |-> "", issued_at |-> 0, n |-> 0]

\* error_response(message, status_code, error_code)
error_response(message, status_code, error_code) ==
  [status |-> status_code, success |-> FALSE, message |-> message,
   code |-> error_code, access |-> NoToken, refresh |-> NoToken]

\* validation_error_response(message, errors)
validation_error_response(message) ==
  error_response(message, 422, "VALIDATION_ERROR")

\* login_success_response(user, access_token, refresh_token, expires_in)
login_success_response(access_token, refresh_token) ==
  [status |-> 200, success |-> TRUE, message |-> Msg("Login successful", <<>>),
   code |-> "", access |-> access_token, refresh |-> refresh_token]

NoResp ==
  [status |-> 0, success |-> FALSE, message |-> Msg("", <<>>),
   code |-> "", access |-> NoToken, refresh |-> NoToken]

\* ---------------------------------------------------------- user store

UserIds == {"u1"}
KnownEmail == "a@x.io"
GoodPassword == "good"

NoUser ==
  [user_id |-> "", email |-> "", role |-> "", password |-> "",
   is_verified |-> FALSE, is_locked |-> FALSE, failed_login_attempts |-> 0,
   locked_at |-> <<>>]

\* UserDB.get_user_by_email(email) -> user or None
get_user_by_email(w, email) ==
  LET hit == {u \in DOMAIN w.users : w.users[u].email = email}
  IN IF hit = {} THEN [found |-> FALSE, user |-> NoUser]
     ELSE [found |-> TRUE, user |-> w.users[CHOOSE u \in hit : TRUE]]

\* UserDB.should_auto_unlock(user, duration_minutes) at time t: never for a
\* permanent lock (duration 0), else once duration has elapsed since locked_at
should_auto_unlock(user, duration, t) ==
  /\ PyNum(duration) > 0
  /\ user.locked_at # <<>>
  /\ t - user.locked_at[1] >= PyNum(duration)

\* UserDB.unlock_account(user_id)
unlock_account(w, uid) ==
  [w EXCEPT !.users[uid].is_locked = FALSE,
            !.users[uid].failed_login_attempts = 0,
            !.users[uid].locked_at = <<>>]

\* UserDB.increment_failed_attempts(user_id) -> new count (atomic add)
increment_failed_attempts(w, uid) ==
  [count |-> w.users[uid].failed_login_attempts + 1,
   w |-> [w EXCEPT !.users[uid].failed_login_attempts = @ + 1]]

\* UserDB.lock_account(user_id)
lock_account(w, uid) ==
  [w EXCEPT !.users[uid].is_locked = TRUE,
            !.users[uid].locked_at = <<w.now>>]

\* UserDB.reset_failed_attempts(user_id)
reset_failed_attempts(w, uid) ==
  [w EXCEPT !.users[uid].failed_login_attempts = 0]

\* LoginAttemptDB.record_attempt(ip, email, success): appends one record; a
\* call that fails raises to its caller, as the calls of the other stores do,
\* and appends nothing
record_attempt(w, ip, email, success, fail) ==
  IF fail THEN [raised |-> TRUE, w |-> w]
  ELSE [raised |-> FALSE,
        w |-> [w EXCEPT !.attempts =
                 Append(@, [ip |-> ip, email |-> email, success |-> success])]]

\* RefreshTokenDB.create_token(token_data)
create_token(w, token_data) == [w EXCEPT !.tokens = Append(@, token_data)]

\* verify_password(candidate, stored)
verify_password(candidate, stored) == candidate = stored

\* config.REFRESH_TOKEN_EXPIRY, in minutes
REFRESH_TOKEN_EXPIRY == 7 * 24 * 60

\* generate_access_token(user_id, email, role)
generate_access_token(w, user) ==
  [user_id |-> user.user_id, issued_at |-> w.now, n |-> 0]

\* generate_refresh_token(user_id): a fresh opaque token
generate_refresh_token(w, user) ==
  [user_id |-> user.user_id, issued_at |-> w.now, n |-> Len(w.tokens) + 1]

\* ------------------------------------------------------- login request

RawEmails == {"a@x.io", "A@X.IO", "z@x.io", "bogus"}
Passwords == {"good", "bad"}
SourceIp == "10.0.0.1"

\* the request bodies: malformed JSON, or an object with email and password
Bodies ==
  {[json |-> FALSE, email |-> "", password |-> ""],
   [json |-> TRUE, email |-> "bogus", password |-> "good"],
   [json |-> TRUE, email |-> "a@x.io", password |-> ""]}
  \cup [json : {TRUE}, email : RawEmails \ {"bogus"}, password : Passwords]

\* validate_login_data(body) -> is_valid
validate_login_data(body) ==
  /\ body.email \in {"a@x.io", "A@X.IO", "z@x.io"}
  /\ body.password # ""

\* body['email'].lower().strip()
NormalizeEmail(raw) == IF raw = "A@X.IO" THEN "a@x.io" ELSE raw

\* the login bodies: no JSON, an email and a password that fail validation, the
\* known account with the right and with a wrong password
HandlerBodies ==
  {b \in Bodies : ~b.json \/ ~validate_login_data(b) \/ b.email = KnownEmail}

\* no refresh_token_data built so far
NoTokenData ==
  [token |-> NoToken, user_id |-> "", created_at |-> 0, expires_at |-> 0]

\* the local variables of one run of login(event, context)
IdleReq ==
  [pc |-> "idle", body |-> [json |-> FALSE, email |-> "", password |-> ""],
   ip |-> "", email |-> "", password |-> "", found |-> FALSE,
   user |-> NoUser, max |-> PyNone, dur |-> PyNone, evr |-> PyNone,
   failed_attempts |-> 0, refresh |-> NoToken, access |-> NoToken,
   refresh_token_data |-> NoTokenData, resp |-> NoResp,
   \* observations of the request, not read by the handler
   pre |-> NoUser, t0 |-> 0, unlocked |-> FALSE, tok0 |-> 0, log0 |-> 0,
   streak0 |-> 0, wrongpw |-> FALSE, fault |-> "", noflt |-> NoResp,
   users0 |-> [u \in {} |-> NoUser],
   cfg |-> [max |-> 0, dur |-> 0, evr |-> FALSE],
   \* the persisted duration when the lock the account is under was set, after
   \* and before the request; -1 when the account is not locked
   lockdur |-> -1, lockdur0 |-> -1]

NewReq(w, body, ip) ==
  [IdleReq EXCEPT !.pc = "get", !.body = body, !.ip = ip, !.t0 = w.now,
                  !.tok0 = Len(w.tokens), !.log0 = Len(w.attempts),
                  !.users0 = w.users]

\* the handler returns resp (the request body is consumed)
Ret(L, w, resp) ==
  [l |-> [L EXCEPT !.pc = "done", !.resp = resp, !.body = IdleReq.body],
   w |-> w]

\* the handler goes on to the store call named pc
Goto(L, w, pc) == [l |-> [L EXCEPT !.pc = pc], w |-> w]

\* except Exception: "Login failed", 500
login_except(L, w) ==
  Ret(L, w, error_response(Msg("Login failed", <<>>), 500, ""))

\* ------------------------------------------------ login(event, context)

\* login_gates with the password evaluated before the verification gate
login_gates_password_first(L, w) ==
  IF ~verify_password(L.password, L.user.password)
    THEN Goto([L EXCEPT !.wrongpw = TRUE], w, "inc")
  ELSE IF PyTruthy(L.evr) /\ ~L.user.is_verified
    THEN Ret(L, w, error_response(
           Msg("Account is not verified. Please verify your email and phone.", <<>>),
           403, ""))
  ELSE Goto(L, w, "reset")

\* lines 75-80: the verification gate, then the password check; the handler
\* goes on to the failed-attempt path or to the success path
login_gates(L, w) ==
  IF PyTruthy(L.evr) /\ ~L.user.is_verified
    THEN Ret(L, w, error_response(
           Msg("Account is not verified. Please verify your email and phone.", <<>>),
           403, ""))
  ELSE IF ~verify_password(L.password, L.user.password)
    THEN Goto([L EXCEPT !.wrongpw = TRUE], w, "inc")
  ELSE Goto(L, w, "reset")

\* login_lock_check with the test for a permanent lock inverted
login_lock_check_inverted(L, w) ==
  IF L.user.is_locked
    THEN IF should_auto_unlock(L.user, L.dur, w.now)
           THEN Goto(L, w, "unlock")
         ELSE IF PyNum(L.dur) # 0
           THEN Ret(L, w, error_response(
                  Msg("Account is permanently locked. Contact support.", <<>>),
                  403, ""))
         ELSE Ret(L, w, error_response(
                Msg("Account is locked due to too many failed login attempts. Try again later.",
                    <<>>), 403, ""))
  ELSE login_gates(L, w)

\* login_lock_check counting the attempt made while the lock has not run out
login_lock_check_counting(L, w) ==
  IF L.user.is_locked
    THEN IF should_auto_unlock(L.user, L.dur, w.now)
           THEN Goto(L, w, "unlock")
         ELSE IF PyNum(L.dur) = 0
           THEN Ret(L, w, error_response(
                  Msg("Account is permanently locked. Contact support.", <<>>),
                  403, ""))
         ELSE Ret(L, increment_failed_attempts(w, L.user.user_id).w,
                  error_response(
                    Msg("Account is locked due to too many failed login attempts. Try again later.",
                        <<>>), 403, ""))
  ELSE login_gates(L, w)

\* lines 57-73: the lockout gate on the user as read
login_lock_check(L, w) ==
  IF L.user.is_locked
    THEN IF should_auto_unlock(L.user, L.dur, w.now)
           THEN Goto(L, w, "unlock")
         ELSE IF PyNum(L.dur) = 0
           THEN Ret(L, w, error_response(
                  Msg("Account is permanently locked. Contact support.", <<>>),
                  403, ""))
         ELSE Ret(L, w, error_response(
                Msg("Account is locked due to too many failed login attempts. Try again later.",
                    <<>>), 403, ""))
  ELSE login_gates(L, w)

\* login_settings taking the duration to be the fallback of line 54
login_settings_fixed_duration(L, w) ==
  LET s3 == get_setting(w, "email_verification_required", PyBool(TRUE))
  IN [l |-> [L EXCEPT !.max = cache_get(w, "max_failed_login_attempts", PyInt(5)),
                      !.dur = PyInt(30), !.evr = s3.value],
      w |-> s3.w]

\* lines 52-55 from the point where the first get_setting has tested the
\* flag and, on a cold cache, got the answer of its scan: the three settings
\* the handler reads
login_settings(L, w) ==
  LET s2 == get_setting(w, "account_lockout_duration_minutes", PyInt(30))
      s3 == get_setting(s2.w, "email_verification_required", PyBool(TRUE))
  IN [l |-> [L EXCEPT !.max = cache_get(w, "max_failed_login_attempts", PyInt(5)),
                      !.dur = s2.value, !.evr = s3.value],
      w |-> s3.w]

\* login_get recording a failed attempt for a body that fails validation
login_get_record_invalid(L, w, fail) ==
  IF L.body.json /\ ~validate_login_data(L.body)
    THEN Ret([L EXCEPT !.fault = ""],
             record_attempt(w, L.ip, L.body.email, FALSE, FALSE).w,
             validation_error_response(Msg("Validation failed", <<>>)))
  ELSE IF ~L.body.json
    THEN Ret([L EXCEPT !.fault = ""], w,
             error_response(Msg("Invalid JSON in request body", <<>>), 400, ""))
  ELSE
    LET L1 == [L EXCEPT !.email = NormalizeEmail(L.body.email),
                        !.password = L.body.password]
        look == get_user_by_email(w, L1.email)
        L2 == [L1 EXCEPT !.found = look.found, !.user = look.user,
                         !.pre = look.user]
    IN IF fail THEN login_except(L1, w)
       ELSE IF ~look.found THEN Goto(L2, w, "rec_unknown")
       ELSE IF ~w.cinit THEN Goto(L2, w, "scan")
       ELSE login_lock_check(login_settings(L2, w).l, login_settings(L2, w).w)

\* lines 30-80: parse, validate, look the user up and, when the cache is
\* loaded, read the settings and run the gates up to the next store call; on
\* a cold cache the next call is the scan of the settings table. A request
\* answered before the lookup has made no store call that could fail
login_get(L, w, fail) ==
  IF ~L.body.json
    THEN Ret([L EXCEPT !.fault = ""], w,
             error_response(Msg("Invalid JSON in request body", <<>>), 400, ""))
  ELSE IF ~validate_login_data(L.body)
    THEN Ret([L EXCEPT !.fault = ""], w,
             validation_error_response(Msg("Validation failed", <<>>)))
  ELSE
    LET L1 == [L EXCEPT !.email = NormalizeEmail(L.body.email),
                        !.password = L.body.password]
        look == get_user_by_email(w, L1.email)
        L2 == [L1 EXCEPT !.found = look.found, !.user = look.user,
                         !.pre = look.user]
    IN IF fail THEN login_except(L1, w)
       ELSE IF ~look.found THEN Goto(L2, w, "rec_unknown")
       ELSE IF ~w.cinit THEN Goto(L2, w, "scan")
       ELSE LET r == login_settings(L2, w) IN login_lock_check(r.l, r.w)

\* line 53 on a cold cache: the scan load_settings asks of the settings table
\* (a table that does not answer is no failure of the request), then the
\* settings and the gates up to the next store call
login_scan(L, w, fail) ==
  LET r == login_settings(L, load_settings(w)) IN login_lock_check(r.l, r.w)

\* lines 47-50: unknown email
login_rec_unknown(L, w, fail) ==
  LET r == record_attempt(w, L.ip, L.email, FALSE, fail)
  IN IF r.raised THEN login_except(L, r.w)
     ELSE Ret(L, r.w,
              error_response(Msg("Invalid email or password", <<>>), 401, ""))

\* login_unlock answering the lock denial after it has unlocked the account
login_unlock_deny(L, w, fail) ==
  IF fail THEN login_except(L, w)
  ELSE Ret([L EXCEPT !.unlocked = TRUE],
           [unlock_account(w, L.user.user_id) EXCEPT !.wsr = 0],
           error_response(
             Msg("Account is locked due to too many failed login attempts. Try again later.",
                 <<>>), 403, ""))

\* login_unlock lifting the lock without resetting the counter
login_unlock_keep_counter(L, w, fail) ==
  IF fail THEN login_except(L, w)
  ELSE login_gates([L EXCEPT !.user.is_locked = FALSE, !.unlocked = TRUE],
                   [w EXCEPT !.users[L.user.user_id].is_locked = FALSE,
                             !.users[L.user.user_id].locked_at = <<>>])

\* lines 59-64: auto-unlock, then on to the gates
login_unlock(L, w, fail) ==
  IF fail THEN login_except(L, w)
  ELSE login_gates([L EXCEPT !.user.is_locked = FALSE,
                             !.user.failed_login_attempts = 0,
                             !.unlocked = TRUE],
                   [unlock_account(w, L.user.user_id) EXCEPT !.wsr = 0])

\* login_increment as a read-modify-write of the counter the request read
login_increment_rmw(L, w, fail) ==
  IF fail THEN login_except(L, w)
  ELSE LET count == L.user.failed_login_attempts + 1
           L1 == [L EXCEPT !.failed_attempts = count]
           w1 == [w EXCEPT !.users[L.user.user_id].failed_login_attempts = count,
                           !.wsr = @ + 1]
       IN IF L1.failed_attempts >= PyNum(L1.max)
            THEN Goto(L1, w1, "lock")
          ELSE Goto(L1, w1, "rec_fail")

\* login_increment locking only above the threshold
login_increment_gt(L, w, fail) ==
  IF fail THEN login_except(L, w)
  ELSE LET r == increment_failed_attempts(w, L.user.user_id)
           L1 == [L EXCEPT !.failed_attempts = r.count]
           w1 == [r.w EXCEPT !.wsr = @ + 1]
       IN IF L1.failed_attempts > PyNum(L1.max)
            THEN Goto(L1, w1, "lock")
          ELSE Goto(L1, w1, "rec_fail")

\* login_increment comparing the counter the request read at the lookup
login_increment_stale(L, w, fail) ==
  IF fail THEN login_except(L, w)
  ELSE LET r == increment_failed_attempts(w, L.user.user_id)
           L1 == [L EXCEPT !.failed_attempts = r.count]
           w1 == [r.w EXCEPT !.wsr = @ + 1]
       IN IF L.user.failed_login_attempts >= PyNum(L1.max)
            THEN Goto(L1, w1, "lock")
          ELSE Goto(L1, w1, "rec_fail")

\* lines 81-85: count the failed attempt and compare with the threshold
login_increment(L, w, fail) ==
  IF fail THEN login_except(L, w)
  ELSE LET r == increment_failed_attempts(w, L.user.user_id)
           L1 == [L EXCEPT !.failed_attempts = r.count]
           w1 == [r.w EXCEPT !.wsr = @ + 1]
       IN IF L1.failed_attempts >= PyNum(L1.max)
            THEN Goto(L1, w1, "lock")
          ELSE Goto(L1, w1, "rec_fail")

\* lines 86-97: lock the account and report the lock; the f-strings take the
\* settings as they were read (a bool prints as True / False)
login_lock(L, w, fail) ==
  IF fail THEN login_except(L, w)
  ELSE Ret(L, lock_account(w, L.user.user_id),
         IF PyNum(L.dur) = 0
           THEN error_response(
                  Msg("Account permanently locked due to {0} failed login attempts. Contact support.",
                      <<L.max>>), 403, "")
         ELSE error_response(
                Msg("Account locked for {0} minutes due to {1} failed login attempts",
                    <<L.dur, L.max>>), 403, ""))

\* login_rec_fail reporting the attempts that remained before this one
login_rec_fail_pre(L, w, fail) ==
  LET r == record_attempt(w, L.ip, L.email, FALSE, fail)
      remaining_attempts == PyNum(L.max) - L.user.failed_login_attempts
  IN IF r.raised THEN login_except(L, r.w)
     ELSE Ret(L, r.w,
              error_response(
                Msg("Invalid email or password. {0} attempts remaining.",
                    <<remaining_attempts>>), 401, ""))

\* lines 99-106: record the failed attempt and report the remaining attempts
login_rec_fail(L, w, fail) ==
  LET r == record_attempt(w, L.ip, L.email, FALSE, fail)
      remaining_attempts == PyNum(L.max) - L.failed_attempts
  IN IF r.raised THEN login_except(L, r.w)
     ELSE Ret(L, r.w,
              error_response(
                Msg("Invalid email or password. {0} attempts remaining.",
                    <<remaining_attempts>>), 401, ""))

\* login_reset going on to the success path when the reset fails
login_reset_failopen(L, w, fail) ==
  IF fail THEN Goto(L, w, "rec_ok")
  ELSE Goto(L, [reset_failed_attempts(w, L.user.user_id) EXCEPT !.wsr = 0],
            "rec_ok")

\* login_reset going on without the reset
login_reset_skip(L, w, fail) ==
  IF fail THEN login_except(L, w)
  ELSE Goto(L, w, "rec_ok")

\* lines 108-109: successful login, reset the failed attempts
login_reset(L, w, fail) ==
  IF fail THEN login_except(L, w)
  ELSE Goto(L, [reset_failed_attempts(w, L.user.user_id) EXCEPT !.wsr = 0],
            "rec_ok")

\* lines 111-132: record the successful attempt, generate the tokens and
\* build the refresh-token record, stamped with the clock as it is read here
login_rec_ok(L, w, fail) ==
  LET r == record_attempt(w, L.ip, L.email, TRUE, fail)
      access_token == generate_access_token(r.w, L.user)
      refresh_token == generate_refresh_token(r.w, L.user)
  IN IF r.raised THEN login_except(L, r.w)
     ELSE Goto([L EXCEPT !.access = access_token,
                         !.refresh = refresh_token,
                         !.refresh_token_data =
                           [token |-> refresh_token,
                            user_id |-> L.user.user_id,
                            created_at |-> r.w.now,
                            expires_at |-> r.w.now + REFRESH_TOKEN_EXPIRY]],
               r.w, "token")

\* lines 133-141: persist the refresh-token record and answer
login_token(L, w, fail) ==
  IF fail THEN login_except(L, w)
  ELSE Ret(L, create_token(w, L.refresh_token_data),
           login_success_response(L.access, L.refresh))

Pcs == {"get", "rec_unknown", "unlock", "inc", "lock", "rec_fail", "reset",
        "rec_ok", "token"}

\* one step of the handler: the store call at L.pc (failing when fail) and the
\* code up to the next store call
login_step(L, w, fail) ==
  CASE L.pc = "get" -> login_get(L, w, fail)
    [] L.pc = "scan" -> login_scan(L, w, fail)
    [] L.pc = "rec_unknown" -> login_rec_unknown(L, w, fail)
    [] L.pc = "unlock" -> login_unlock(L, w, fail)
    [] L.pc = "inc" -> login_increment(L, w, fail)
    [] L.pc = "lock" -> login_lock(L, w, fail)
    [] L.pc = "rec_fail" -> login_rec_fail(L, w, fail)
    [] L.pc = "reset" -> login_reset(L, w, fail)
    [] L.pc = "rec_ok" -> login_rec_ok(L, w, fail)
    [] L.pc = "token" -> login_token(L, w, fail)

\* the handler run from st = [l, w] to its return, the store call at failpc
\* failing
RECURSIVE login_run(_, _)
login_run(st, failpc) ==
  IF st.l.pc = "done" THEN st
  ELSE login_run(
         login_step(IF st.l.pc = failpc THEN [st.l EXCEPT !.fault = st.l.pc]
                    ELSE st.l,
                    st.w, st.l.pc = failpc),
         failpc)

\* login(event, context) run without interleaving
login(w, body, ip, failpc) ==
  login_run([l |-> NewReq(w, body, ip), w |-> w], failpc)

\* --------------------------------------- request-body schema validation

\* isinstance(value, field_type): bool is a subclass of int
PyIsInstance(x, type) == x.t = type \/ (type = "int" /\ x.t = "bool")

\* config.VALID_ROLES
VALID_ROLES == {"master", "admin", "staff", "customer"}

\* no field errors
NoErrors == [k \in {} |-> Msg("", <<>>)]

\* error_response(message, status_code, error_code, error_details) and
\* success_response(data, message) as the settings handlers use them: the
\* body with its error details or its data
error_response_details(message, status_code, error_code, error_details) ==
  [status |-> status_code, success |-> FALSE, message |-> message,
   code |-> error_code, details |-> error_details,
   data |-> [k \in {} |-> PyNone]]

success_response(data, message) ==
  [status |-> 200, success |-> TRUE, message |-> message, code |-> "",
   details |-> NoErrors, data |-> data]

\* validation_error_response(message, errors)
validation_error_response_details(message, errors) ==
  error_response_details(message, 422, "VALIDATION_ERROR", errors)

NoSettingsResp ==
  [status |-> 0, success |-> FALSE, message |-> Msg("", <<>>), code |-> "",
   details |-> NoErrors, data |-> [k \in {} |-> PyNone]]

\* SchemaField(field_type, required = False, min_value, max_value,
\* allowed_values); an absent constraint is <<>>
SchemaField(type, min, max, allowed) ==
  [field_type |-> type, required |-> FALSE, min_value |-> min,
   max_value |-> max, allowed_values |-> allowed]

\* schemas.update_settings_schema (strict)
update_settings_schema ==
  [k \in {"allow_public_signup", "allow_adding_new_users",
          "require_otp_on_registration", "email_verification_required",
          "default_public_role", "min_password_length",
          "max_failed_login_attempts", "account_lockout_duration_minutes"} |->
     CASE k = "default_public_role" -> SchemaField("str", <<>>, <<>>, <<VALID_ROLES>>)
       [] k = "min_password_length" -> SchemaField("int", <<4>>, <<128>>, <<>>)
       [] k = "max_failed_login_attempts" -> SchemaField("int", <<1>>, <<100>>, <<>>)
       [] k = "account_lockout_duration_minutes" ->
            SchemaField("int", <<0>>, <<10080>>, <<>>)
       [] OTHER -> SchemaField("bool", <<>>, <<>>, <<>>)]

\* SchemaField.validate(field_name, value): <<>> or the detail of the
\* ValidationError it raises
SchemaField_validate(field, value) ==
  IF ~PyIsInstance(value, field.field_type)
    THEN <<Msg("Expected {0}, got {1}",
               <<PyStr(field.field_type), PyStr(PyTypeName(value))>>)>>
  ELSE IF /\ value.t \in {"int", "bool"} /\ field.min_value # <<>>
          /\ PyNum(value) < field.min_value[1]
    THEN <<Msg("Minimum value is {0}", <<PyInt(field.min_value[1])>>)>>
  ELSE IF /\ value.t \in {"int", "bool"} /\ field.max_value # <<>>
          /\ PyNum(value) > field.max_value[1]
    THEN <<Msg("Maximum value is {0}", <<PyInt(field.max_value[1])>>)>>
  ELSE IF field.allowed_values # <<>> /\ value.v \notin field.allowed_values[1]
    THEN <<Msg("Allowed values are: {0}", <<PyStr("VALID_ROLES")>>)>>
  ELSE <<>>

\* the keys of a body, a sequence of <<key, value>> with distinct keys
BodyKeys(data) == {data[i][1] : i \in 1..Len(data)}
BodyValue(data, key) == data[CHOOSE i \in 1..Len(data) : data[i][1] = key][2]

\* Schema.validate(data) for a dict: the errors it collects, none of the
\* fields being required
Schema_validate(schema, data) ==
  LET bad == {k \in BodyKeys(data) :
                \/ k \notin DOMAIN schema
                \/ SchemaField_validate(schema[k], BodyValue(data, k)) # <<>>}
  IN [k \in bad |->
        IF k \notin DOMAIN schema THEN Msg("This field is not allowed", <<>>)
        ELSE SchemaField_validate(schema[k], BodyValue(data, k))[1]]

\* ------------------------------------------ handlers/settings.py

\* ALLOWED_SETTINGS: key -> type
ALLOWED_SETTINGS ==
  [k \in {"allow_public_signup", "allow_adding_new_users",
          "require_otp_on_registration", "email_verification_required",
          "default_public_role", "min_password_length",
          "max_failed_login_attempts", "account_lockout_duration_minutes"} |->
     CASE k = "default_public_role" -> "str"
       [] k \in {"min_password_length", "max_failed_login_attempts",
                 "account_lockout_duration_minutes"} -> "int"
       [] OTHER -> "bool"]

\* lines 74-118: the error the handler finds in one entry, <<>> when valid
SettingError(key, value) ==
  IF key \notin DOMAIN ALLOWED_SETTINGS
    THEN <<Msg("Unknown setting: {0}", <<PyStr(key)>>)>>
  ELSE IF ~PyIsInstance(value, ALLOWED_SETTINGS[key])
    THEN <<Msg("Invalid type. Expected {0}, got {1}",
               <<PyStr(ALLOWED_SETTINGS[key]), PyStr(PyTypeName(value))>>)>>
  ELSE IF key = "min_password_length" /\ PyNum(value) < 4
    THEN <<Msg("Minimum password length must be at least 4", <<>>)>>
  ELSE IF key = "min_password_length" /\ PyNum(value) > 128
    THEN <<Msg("Minimum password length cannot exceed 128", <<>>)>>
  ELSE IF key = "max_failed_login_attempts" /\ PyNum(value) < 1
    THEN <<Msg("Maximum failed login attempts must be at least 1", <<>>)>>
  ELSE IF key = "max_failed_login_attempts" /\ PyNum(value) > 100
    THEN <<Msg("Maximum failed login attempts cannot exceed 100", <<>>)>>
  ELSE IF key = "account_lockout_duration_minutes" /\ PyNum(value) < 0
    THEN <<Msg("Account lockout duration cannot be negative (use 0 for permanent lock)",
               <<>>)>>
  ELSE IF key = "account_lockout_duration_minutes" /\ PyNum(value) > 10080
    THEN <<Msg("Account lockout duration cannot exceed 10080 minutes (7 days)",
               <<>>)>>
  ELSE IF key = "default_public_role" /\ value.v \notin VALID_ROLES
    THEN <<Msg("Invalid role. Must be one of: {0}", <<PyStr("VALID_ROLES")>>)>>
  ELSE <<>>

\* the errors and the validated settings the loop of lines 74-118 builds
SettingErrors(body) ==
  [k \in {k \in BodyKeys(body) : SettingError(k, BodyValue(body, k)) # <<>>} |->
     SettingError(k, BodyValue(body, k))[1]]

RECURSIVE ValidatedSettings(_)
ValidatedSettings(body) ==
  IF body = <<>> THEN <<>>
  ELSE IF SettingError(Head(body)[1], Head(body)[2]) = <<>>
    THEN <<Head(body)>> \o ValidatedSettings(Tail(body))
  ELSE ValidatedSettings(Tail(body))

\* lines 123-134: write the validated settings, read them back and answer
settings_apply(w, validated, failat) ==
  LET r == update_settings(w, validated, 1, failat)
      w2 == EnsureLoaded(r.w)
  IN IF r.raised
       THEN [resp |-> error_response_details(
                        Msg("Failed to update settings", <<>>), 500, "", NoErrors),
             w |-> r.w]
     ELSE [resp |-> success_response(
                      [k \in BodyKeys(validated) |-> get_setting(w2, k, PyNone).value],
                      Msg("Successfully updated {0} setting(s)",
                          <<PyInt(Len(validated))>>)),
           w |-> w2]

\* handlers/settings.py update_settings(event, context), PUT /settings
handler_update_settings(w, event, failat) ==
  IF event.none
    THEN [resp |-> error_response_details(
                     Msg("Failed to update settings", <<>>), 500, "", NoErrors),
          w |-> w]
  ELSE IF ~event.json
    THEN [resp |-> error_response_details(
                     Msg("Invalid JSON in request body", <<>>), 400, "", NoErrors),
          w |-> w]
  ELSE IF event.body = <<>>
    THEN [resp |-> validation_error_response_details(
                     Msg("No settings provided", <<>>), NoErrors),
          w |-> w]
  ELSE IF DOMAIN SettingErrors(event.body) # {}
    THEN [resp |-> validation_error_response_details(
                     Msg("Validation failed", <<>>), SettingErrors(event.body)),
          w |-> w]
  ELSE settings_apply(w, ValidatedSettings(event.body), failat)

\* no response: the exception exc leaves the function
Uncaught(exc) == [NoSettingsResp EXCEPT !.code = exc]

\* the wrapper of validate_request_body calls func(event, context)
Called(r) == [resp |-> r.resp, w |-> r.w, called |-> TRUE]

\* validate_request_body(update_settings_schema) around update_settings:
\* json.loads raises TypeError for None, which the wrapper does not catch, and
\* JSONDecodeError for a string that is no JSON
validate_request_body(w, event, failat) ==
  IF event.none
    THEN [resp |-> Uncaught("TypeError"), w |-> w, called |-> FALSE]
  ELSE IF ~event.json
    THEN [resp |-> error_response_details(
                     Msg("Invalid JSON in request body", <<>>), 400,
                     "INVALID_JSON", NoErrors),
          w |-> w, called |-> FALSE]
  ELSE IF ~event.dict
    THEN [resp |-> error_response_details(
                     Msg("Request body must be a JSON object", <<>>), 400,
                     "VALIDATION_ERROR",
                     [k \in {"body"} |->
                        Msg("Expected object, got {0}", <<PyStr("list")>>)]),
          w |-> w, called |-> FALSE]
  ELSE IF DOMAIN Schema_validate(update_settings_schema, event.body) # {}
    THEN [resp |-> error_response_details(
                     Msg("Validation failed", <<>>), 400, "VALIDATION_ERROR",
                     Schema_validate(update_settings_schema, event.body)),
          w |-> w, called |-> FALSE]
  ELSE Called(handler_update_settings(w, event, failat))

\* unauthorized_response() and forbidden_response()
unauthorized_response ==
  error_response_details(Msg("Unauthorized", <<>>), 401, "UNAUTHORIZED", NoErrors)
forbidden_response ==
  error_response_details(Msg("Forbidden", <<>>), 403, "FORBIDDEN", NoErrors)

\* the principals of a request: its role, "" for an unauthenticated caller
Principals == {"master", "admin", ""}

\* require_auth letting every caller through
require_auth_any(required_role, role) == <<>>

\* require_auth(required_role): <<>> when the wrapped function is called,
\* else the response returned in its place
require_auth(required_role, role) ==
  IF role = "" THEN <<unauthorized_response>>
  ELSE IF role # required_role THEN <<forbidden_response>>
  ELSE <<>>

\* handlers/settings.py get_settings(event, context): the settings whose key
\* does not start with an underscore
get_settings(w) ==
  LET r == get_all_settings(w)
  IN [resp |-> success_response(
                 [k \in {k \in DOMAIN r.value.map :
                           k \notin {"_version", "_initialized"}} |->
                    r.value.map[k]],
                 Msg("Success", <<>>)),
      w |-> r.w]

\* PUT /settings: require_auth around validate_request_body around the handler
settings_put(w, event, failat) ==
  IF require_auth("master", event.role) # <<>>
    THEN [resp |-> require_auth("master", event.role)[1], w |-> w,
          called |-> FALSE]
  ELSE validate_request_body(w, event, failat)

\* GET /settings: require_auth around the handler
settings_get(w, event) ==
  IF require_auth("master", event.role) # <<>>
    THEN [resp |-> require_auth("master", event.role)[1], w |-> w]
  ELSE get_settings(w)

\* ------------------------------------------------------------- state

VARIABLES
  users,              \* user store: user_id -> account
  attempts,           \* login-attempt store, append-only
  tokens,             \* refresh-token store
  settings_table,     \* persisted settings: setting_key -> item
  settings_cache,     \* _settings_cache
  cache_initialized,  \* _cache_initialized
  settings_up,        \* whether the settings table answers
  now,                \* the clock, in minutes
  req,                \* request slot -> local variables of its login run
  wrong_since_reset,  \* wrong-password attempts processed since the last reset
  streak,             \* consecutive wrong-password logins since a fresh account
  scen,               \* steps of the threshold-5 / 30-minute scenario completed
  faults,             \* store failures injected so far
  sop,                \* the last settings operation: its call, its result and
                      \* the state it started from
  ini                 \* the callers of initialize_settings running concurrently

vars ==
  <<users, attempts, tokens, settings_table, settings_cache, cache_initialized,
    settings_up, now, req, wrong_since_reset, streak, scen, faults, sop, ini>>

\* the variables of the login flow that the settings operations leave alone
loginVars ==
  <<users, attempts, tokens, now, req, wrong_since_reset, streak, scen, faults>>

World ==
  [users |-> users, attempts |-> attempts, tokens |-> tokens,
   table |-> settings_table, cache |-> settings_cache,
   cinit |-> cache_initialized, up |-> settings_up, now |-> now,
   wsr |-> wrong_since_reset, scans |-> 0]

SetWorld(w) ==
  /\ users' = w.users
  /\ attempts' = w.attempts
  /\ tokens' = w.tokens
  /\ settings_table' = w.table
  /\ settings_cache' = w.cache
  /\ cache_initialized' = w.cinit
  /\ settings_up' = w.up
  /\ now' = w.now
  /\ wrong_since_reset' = w.wsr

\* the settings state an operation starts from
PreState(w) == [table |-> w.table, cache |-> w.cache, cinit |-> w.cinit, up |-> w.up]

\* no settings operation so far
IdleOp ==
  [kind |-> "none", key |-> "", arg |-> PyNone, ret |-> PyNone,
   raised |-> FALSE, scans |-> 0, prev |-> "none",
   pre |-> [table |-> [k \in {} |-> PyNone], cache |-> [k \in {} |-> PyNone],
            cinit |-> FALSE, up |-> TRUE],
   \* the mapping the caller got from get_all_settings or load_settings and
   \* still holds
   held |-> NoMapping,
   \* key -> the value of its last update_setting, until the key is written
   \* by anyone else
   set |-> [k \in {} |-> PyNone],
   \* the keys written out of band since the cache was last loaded
   oob |-> {},
   \* the same when the operation started
   oob0 |-> {},
   \* whether, when the operation started, the last reload had failed
   failed |-> FALSE,
   \* whether a caller has changed the cache through the mapping
   \* load_settings returned, since the cache was last loaded or cleared
   tampered |-> FALSE,
   batch |-> <<>>, failat |-> 0, n |-> 0,
   \* the request and the response of a settings handler
   event |-> [role |-> "", none |-> FALSE, json |-> FALSE, dict |-> FALSE,
             body |-> <<>>],
   \* whether the wrapped handler was called
   called |-> FALSE,
   resp |-> NoSettingsResp]

\* the processes that call initialize_settings concurrently
Initializers == {"i1", "i2"}

\* no caller of initialize_settings so far: where each caller is in the
\* function, the put it is at, how often each default was written, and the
\* keys whose value set by update_setting a default has overwritten
IdleIni ==
  [pc |-> [p \in Initializers |-> "idle"], idx |-> [p \in Initializers |-> 0],
   seeds |-> [k \in SettingKeys |-> 0], lost |-> {}]

\* the policies the runs start from
Thresholds == {1, 2, 3}
Durations == {0, 30}

\* the table after initialize_settings and an update of the three policy keys
SeededTable(max, dur, evr) ==
  [k \in SettingKeys |->
     SettingItem(CASE k = "max_failed_login_attempts" -> PyInt(max)
                   [] k = "account_lockout_duration_minutes" -> PyInt(dur)
                   [] k = "email_verification_required" -> PyBool(evr)
                   [] OTHER -> DEFAULT_SETTINGS[k])]

\* one registered account, never locked so far
FreshUsers(verified) ==
  [u \in UserIds |->
    [user_id |-> u, email |-> KnownEmail, role |-> "customer",
     password |-> GoodPassword, is_verified |-> verified,
     is_locked |-> FALSE, failed_login_attempts |-> 0, locked_at |-> <<>>]]

InitStores(maxs, durs, evrs, verifieds) ==
  /\ \E v \in verifieds : users = FreshUsers(v)
  /\ attempts = <<>>
  /\ tokens = <<>>
  /\ \E max \in maxs, dur \in durs, evr \in evrs :
       settings_table = SeededTable(max, dur, evr)
  /\ settings_cache = [k \in {} |-> PyNone]
  /\ cache_initialized = FALSE
  /\ settings_up = TRUE
  /\ now = 0
  /\ wrong_since_reset = 0
  /\ streak = 0
  /\ scen = 0
  /\ faults = 0
  /\ sop = IdleOp
  /\ ini = IdleIni

Init ==
  /\ InitStores(Thresholds, Durations, BOOLEAN, BOOLEAN)
  /\ req = [p \in {1} |-> IdleReq]

\* the policy in force (persisted)
Threshold == PyNum(convert_dynamodb_types(
               settings_table["max_failed_login_attempts"].setting_value))
Duration == PyNum(convert_dynamodb_types(
               settings_table["account_lockout_duration_minutes"].setting_value))
Required == PyTruthy(convert_dynamodb_types(
               settings_table["email_verification_required"].setting_value))

\* the one account of the model
Acct == users["u1"]

\* room left in the bounded stores for one more request beside n in flight
Room(n, caplog, captok) ==
  Len(attempts) + n < caplog /\ Len(tokens) + n < captok

\* body is a well-formed login for the known account with a wrong / the right password
IsWrongPw(body) ==
  /\ body.json /\ validate_login_data(body)
  /\ NormalizeEmail(body.email) = Acct.email
  /\ ~verify_password(body.password, Acct.password)
IsRightPw(body) ==
  /\ body.json /\ validate_login_data(body)
  /\ NormalizeEmail(body.email) = Acct.email
  /\ verify_password(body.password, Acct.password)

\* the account is verified, unlocked and has no failed attempt
Fresh == Acct.is_verified /\ ~Acct.is_locked /\ Acct.failed_login_attempts = 0

\* the streak after a request with this body on the account as it is
NextStreak(body) ==
  IF IsWrongPw(body) /\ (streak > 0 \/ Fresh)
    THEN (IF streak > Threshold THEN streak ELSE streak + 1)
  ELSE 0

\* progress through the scenario "threshold 5, duration 30: five wrong
\* passwords, the right password at once, the right password 31 minutes later"
NextScen(body) ==
  IF Threshold # 5 \/ Duration # 30 THEN 0
  ELSE IF scen < 5 /\ IsWrongPw(body) /\ (scen > 0 \/ Fresh) THEN scen + 1
  ELSE IF scen = 5 /\ IsRightPw(body) /\ Acct.locked_at = <<now>> THEN 6
  ELSE IF scen = 6 /\ IsRightPw(body) /\ Acct.locked_at = <<now - 31>> THEN 7
  ELSE IF IsWrongPw(body) /\ Fresh THEN 1
  ELSE 0

\* the persisted duration under which the account was locked, after the run
\* r of a request: the duration now in force when r locked the account
LockDuration(r) ==
  IF ~r.w.users["u1"].is_locked THEN -1
  ELSE IF r.w.users["u1"].locked_at # Acct.locked_at \/ r.l.unlocked
    THEN Duration
  ELSE req[1].lockdur

\* a whole login request; the store call at failpc fails ("none": no failure)
DoLogin(body, failpc) ==
  /\ \E r \in {login(World, body, SourceIp, failpc)} :
       /\ failpc # "none" => r.l.fault = failpc
       /\ \E ref \in {IF failpc = "none" THEN r
                       ELSE login(World, body, SourceIp, "none")} :
            req' = [req EXCEPT ![1] =
                      [r.l EXCEPT !.streak0 = streak,
                                  !.noflt = ref.l.resp,
                                  !.cfg = [max |-> Threshold, dur |-> Duration,
                                           evr |-> Required],
                                  !.lockdur0 = req[1].lockdur,
                                  !.lockdur = LockDuration(r)]]
       /\ SetWorld(r.w)
  /\ streak' = NextStreak(body)
  /\ scen' = NextScen(body)

\* a login request, every store answering
Login(body) ==
  /\ Room(0, MaxLog, MaxTokens)
  /\ DoLogin(body, "none")
  /\ UNCHANGED <<faults, sop, ini>>

\* a login request during which the store call at failpc is made and fails
LoginFault(body, failpc) ==
  /\ Room(0, FaultLog, FaultTokens)
  /\ faults < MaxFaults
  /\ DoLogin(body, failpc)
  /\ faults' = faults + 1
  /\ UNCHANGED <<sop, ini>>

\* time passes
Tick(d) ==
  /\ now + d <= MaxTime
  /\ now' = now + d
  /\ UNCHANGED <<users, attempts, tokens, settings_table, settings_cache,
                 cache_initialized, settings_up, req, wrong_since_reset,
                 streak, scen, faults, sop, ini>>

Next ==
  \/ \E body \in Bodies : Login(body)
  \/ \E d \in TickSteps : Tick(d)

\* sequential requests, stores always answering
Spec == Init /\ [][Next]_vars

\* a login request with every store answering, before or after a failure
LoginNoFault(body) ==
  /\ Room(0, FaultLog, FaultTokens)
  /\ DoLogin(body, "none")
  /\ UNCHANGED <<faults, sop, ini>>

NextFault ==
  \/ \E body \in Bodies : LoginNoFault(body)
  \/ \E body \in Bodies, failpc \in Pcs : LoginFault(body, failpc)
  \/ \E d \in TickSteps : Tick(d)

\* sequential requests, any one store call of a request may fail
InitFault ==
  /\ InitStores({2}, {30}, {TRUE}, BOOLEAN)
  /\ req = [p \in {1} |-> IdleReq]

SpecFault == InitFault /\ [][NextFault]_vars

\* the scenario of threshold 5 and duration 30 on a verified account
InitScenario ==
  /\ InitStores({3, 5}, {30}, BOOLEAN, {TRUE})
  /\ req = [p \in {1} |-> IdleReq]

ScenarioLogin(body) ==
  /\ Room(0, ScenarioLog, MaxTokens)
  /\ DoLogin(body, "none")
  /\ UNCHANGED <<faults, sop, ini>>

NextScenario ==
  \/ \E body \in Bodies : ScenarioLogin(body)
  \/ \E d \in TickSteps : Tick(d)

SpecScenario == InitScenario /\ [][NextScenario]_vars

\* ------------------------------------------------- policy changes

\* the policy values an operator sets between requests
PolicyUpdates ==
  {<<"account_lockout_duration_minutes", PyInt(0)>>,
   <<"account_lockout_duration_minutes", PyInt(30)>>,
   <<"email_verification_required", PyBool(FALSE)>>,
   <<"email_verification_required", PyBool(TRUE)>>}

\* AppSettingsDB.update_setting(key, value) between two login requests
UpdatePolicy(kv) ==
  /\ \E r \in {update_setting(World, kv[1], kv[2])} :
       /\ ~r.raised
       /\ r.w.table # settings_table
       /\ SetWorld(r.w)
  /\ streak' = 0
  /\ scen' = 0
  /\ UNCHANGED <<req, faults, sop, ini>>

InitPolicy ==
  /\ InitStores({2}, Durations, BOOLEAN, {FALSE})
  /\ req = [p \in {1} |-> IdleReq]

NextPolicy ==
  \/ \E body \in Bodies : Login(body)
  \/ \E kv \in PolicyUpdates : UpdatePolicy(kv)
  \/ \E d \in TickSteps : Tick(d)

\* sequential requests with the policy settings changed between them
SpecPolicy == InitPolicy /\ [][NextPolicy]_vars

\* ------------------------------------------------ concurrent requests

\* the request slots of the concurrent specification
Procs == {1, 2}

InFlight == Cardinality({p \in DOMAIN req : req[p].pc \notin {"idle", "done"}})

\* what a slot keeps of a run: its locals while it runs, and once it has
\* returned its response, the threshold it read and whether it was a
\* wrong-password attempt
Kept(L) ==
  IF L.pc = "done"
    THEN [IdleReq EXCEPT !.pc = "done", !.resp = L.resp, !.email = L.email,
                         !.found = L.found, !.wrongpw = L.wrongpw,
                         !.max = L.max]
  ELSE [L EXCEPT !.pre = NoUser, !.t0 = 0, !.tok0 = 0, !.log0 = 0,
                 !.users0 = IdleReq.users0]

\* slot p runs the store call at its pc and the code up to the next one
Step(p) ==
  /\ \E r \in {login_step(req[p], World, FALSE)} :
       /\ req' = [req EXCEPT ![p] = Kept(r.l)]
       /\ SetWorld(r.w)
  /\ UNCHANGED <<streak, scen, faults, sop, ini>>

\* a request arrives at slot p: lines 30-80
CGet(p, body) ==
  /\ req[p].pc \in {"idle", "done"}
  /\ Room(InFlight, ConcLog, ConcTokens)
  /\ \E r \in {login_step(NewReq(World, body, SourceIp), World, FALSE)} :
       /\ req' = [req EXCEPT ![p] = Kept(r.l)]
       /\ SetWorld(r.w)
  /\ UNCHANGED <<streak, scen, faults, sop, ini>>

CScan(p) == req[p].pc = "scan" /\ Step(p)
CRecUnknown(p) == req[p].pc = "rec_unknown" /\ Step(p)
CUnlock(p) == req[p].pc = "unlock" /\ Step(p)
CIncrement(p) == req[p].pc = "inc" /\ Step(p)
CLock(p) == req[p].pc = "lock" /\ Step(p)
CRecFail(p) == req[p].pc = "rec_fail" /\ Step(p)
CReset(p) == req[p].pc = "reset" /\ Step(p)
CRecOk(p) == req[p].pc = "rec_ok" /\ Step(p)
CToken(p) == req[p].pc = "token" /\ Step(p)

InitConc ==
  /\ InitStores({2}, Durations, {TRUE}, {TRUE})
  /\ req = [p \in Procs |-> IdleReq]

NextConc ==
  \/ \E p \in Procs, body \in Bodies : CGet(p, body)
  \/ \E p \in Procs : CScan(p)
  \/ \E p \in Procs : CRecUnknown(p)
  \/ \E p \in Procs : CUnlock(p)
  \/ \E p \in Procs : CIncrement(p)
  \/ \E p \in Procs : CLock(p)
  \/ \E p \in Procs : CRecFail(p)
  \/ \E p \in Procs : CReset(p)
  \/ \E p \in Procs : CRecOk(p)
  \/ \E p \in Procs : CToken(p)
  \/ \E d \in TickSteps : Tick(d)

\* requests for the same account running concurrently, one store call at a time
SpecConc == InitConc /\ [][NextConc]_vars

\* the thresholds an operator sets while requests are served
ThresholdUpdates ==
  {<<"max_failed_login_attempts", PyInt(1)>>,
   <<"max_failed_login_attempts", PyInt(2)>>,
   <<"max_failed_login_attempts", PyInt(3)>>}

InitConcPolicy ==
  /\ InitStores({1, 3}, {0}, {TRUE}, {TRUE})
  /\ req = [p \in Procs |-> IdleReq]

NextConcPolicy ==
  \/ \E p \in Procs, body \in HandlerBodies : CGet(p, body)
  \/ \E p \in Procs : CScan(p)
  \/ \E p \in Procs : CIncrement(p)
  \/ \E p \in Procs : CLock(p)
  \/ \E p \in Procs : CRecFail(p)
  \/ \E p \in Procs : CReset(p)
  \/ \E p \in Procs : CRecOk(p)
  \/ \E p \in Procs : CToken(p)
  \/ \E kv \in ThresholdUpdates : UpdatePolicy(kv)

\* concurrent requests for the same account while the threshold is changed
SpecConcPolicy == InitConcPolicy /\ [][NextConcPolicy]_vars

\* ------------------------------------------------- the settings store

\* the values update_setting is called with
SettingUpdates ==
  {<<"max_failed_login_attempts", PyInt(3)>>,
   <<"email_verification_required", PyBool(FALSE)>>,
   <<"default_public_role", PyStr("admin")>>}

\* the writes another process makes to the table
OutOfBandWrites ==
  {<<"max_failed_login_attempts", PyInt(9)>>,
   <<"default_public_role", PyStr("staff")>>}

\* the keys and fallbacks get_setting is called with
GetKeys ==
  {"max_failed_login_attempts", "email_verification_required",
   "default_public_role", "_version", "no_such_setting"}
GetDefaults == {PyNone, PyInt(3)}

\* what callers do to a mapping they got: set a key, add a key, remove a key
Mutations ==
  {<<"set", "max_failed_login_attempts", PyInt(99)>>,
   <<"set", "extra", PyStr("x")>>,
   <<"del", "_version", PyNone>>}

\* m applied to a python dict
Mutated(map, m) ==
  IF m[1] = "set"
    THEN [k \in DOMAIN map \cup {m[2]} |-> IF k = m[2] THEN m[3] ELSE map[k]]
  ELSE [k \in DOMAIN map \ {m[2]} |-> map[k]]

\* the record of an operation of this kind starting now
OpRec(kind) ==
  [IdleOp EXCEPT !.kind = kind, !.prev = sop.kind, !.pre = PreState(World),
                 !.set = sop.set, !.oob = sop.oob, !.oob0 = sop.oob,
                 !.failed = IF sop.scans > 0 THEN ~sop.pre.up ELSE sop.failed,
                 !.tampered = sop.tampered]

\* f without the key k
Without(f, k) == [x \in DOMAIN f \ {k} |-> f[x]]
\* f with k bound to v
With(f, k, v) == [x \in DOMAIN f \cup {k} |-> IF x = k THEN v ELSE f[x]]

\* the keys written out of band that a finished operation leaves unloaded
OobAfter(w) == IF w.scans > 0 /\ w.up THEN {} ELSE sop.oob

\* whether the cache a finished operation leaves still carries what a caller
\* put into it through the mapping load_settings returned
TamperedAfter(w) == IF w.scans > 0 /\ w.up THEN FALSE ELSE sop.tampered

\* update_setting(key, value)
SUpdate(kv) ==
  /\ \E r \in {update_setting(World, kv[1], kv[2])} :
       /\ SetWorld(r.w)
       /\ sop' = [OpRec("update") EXCEPT
                    !.key = kv[1], !.arg = kv[2], !.raised = r.raised,
                    !.set = IF r.raised THEN @ ELSE With(@, kv[1], kv[2]),
                    !.oob = IF r.raised THEN @ ELSE @ \ {kv[1]}]
  /\ UNCHANGED <<req, streak, scen, faults, ini>>

\* get_setting(key, default)
SGet(key, default) ==
  /\ \E r \in {get_setting(World, key, default)} :
       /\ SetWorld(r.w)
       /\ sop' = [OpRec("get") EXCEPT
                    !.key = key, !.arg = default, !.ret = r.value,
                    !.scans = r.w.scans, !.oob = OobAfter(r.w),
                    !.tampered = TamperedAfter(r.w)]
  /\ UNCHANGED <<req, streak, scen, faults, ini>>

\* get_all_settings(); the caller keeps the mapping
SGetAll ==
  /\ \E r \in {get_all_settings(World)} :
       /\ SetWorld(r.w)
       /\ sop' = [OpRec("getall") EXCEPT
                    !.held = r.value, !.scans = r.w.scans,
                    !.oob = OobAfter(r.w),
                    !.tampered = TamperedAfter(r.w)]
  /\ UNCHANGED <<req, streak, scen, faults, ini>>

\* load_settings() called by the user of the module; the caller keeps the
\* mapping it returns
SLoad ==
  /\ \E w1 \in {load_settings(World)} :
       /\ SetWorld(w1)
       /\ sop' = [OpRec("load") EXCEPT
                    !.held = load_settings_return(World), !.scans = w1.scans,
                    !.oob = OobAfter(w1), !.tampered = TamperedAfter(w1)]
  /\ UNCHANGED <<req, streak, scen, faults, ini>>

\* the caller changes the mapping it got from get_all_settings or from
\* load_settings; what it changes is the cache when the mapping is the cache
\* itself
SMutate(m) ==
  /\ sop.kind \in {"getall", "load"}
  /\ sop' = [OpRec("mutate") EXCEPT
               !.key = m[2], !.arg = m[3],
               !.held = [sop.held EXCEPT !.map = Mutated(@, m)],
               !.set = IF sop.held.alias THEN Without(@, m[2]) ELSE @,
               !.tampered = @ \/ sop.held.alias]
  /\ settings_cache' = IF sop.held.alias THEN Mutated(settings_cache, m)
                       ELSE settings_cache
  /\ UNCHANGED <<users, attempts, tokens, settings_table, cache_initialized,
                 settings_up, now, req, wrong_since_reset, streak, scen,
                 faults, ini>>

\* clear_cache()
SClear ==
  /\ cache_initialized \/ DOMAIN settings_cache # {}
  /\ SetWorld(clear_cache(World))
  /\ sop' = [OpRec("clear") EXCEPT !.tampered = FALSE]
  /\ UNCHANGED <<req, streak, scen, faults, ini>>

\* another process writes a setting: the table changes, this cache does not
SOutOfBand(kv) ==
  /\ settings_up
  /\ put_item(settings_table, kv[1], kv[2]) # settings_table
  /\ settings_table' = put_item(settings_table, kv[1], kv[2])
  /\ sop' = [OpRec("oob") EXCEPT
               !.key = kv[1], !.arg = kv[2],
               !.set = Without(@, kv[1]), !.oob = @ \cup {kv[1]}]
  /\ UNCHANGED <<users, attempts, tokens, settings_cache, cache_initialized,
                 settings_up, now, req, wrong_since_reset, streak, scen,
                 faults, ini>>

\* the table stops or resumes answering
SOutage ==
  /\ settings_up' = ~settings_up
  /\ sop' = OpRec("outage")
  /\ UNCHANGED <<users, attempts, tokens, settings_table, settings_cache,
                 cache_initialized, now, req, wrong_since_reset, streak, scen,
                 faults, ini>>

InitSettings ==
  /\ InitStores({5}, {30}, {TRUE}, {TRUE})
  /\ req = [p \in {1} |-> IdleReq]

NextSettings ==
  \/ \E kv \in SettingUpdates : SUpdate(kv)
  \/ \E key \in GetKeys, default \in GetDefaults : SGet(key, default)
  \/ SGetAll
  \/ SLoad
  \/ \E m \in Mutations : SMutate(m)
  \/ SClear
  \/ \E kv \in OutOfBandWrites : SOutOfBand(kv)
  \/ SOutage

\* one process using the settings store, the table seeded with the defaults
SpecSettings == InitSettings /\ [][NextSettings]_vars

\* --------------------------------------- seeding and batch updates

\* the mappings update_settings is called with, in the order of their keys
Batches ==
  {<<<<"max_failed_login_attempts", PyInt(3)>>,
     <<"email_verification_required", PyBool(FALSE)>>>>,
   <<<<"email_verification_required", PyBool(FALSE)>>,
     <<"max_failed_login_attempts", PyInt(3)>>>>}
  \cup {<<<<"default_public_role", PyStr("admin")>>,
          <<"max_failed_login_attempts", PyInt(3)>>,
          <<"email_verification_required", PyBool(FALSE)>>>>}

\* the keys of the first n entries of a batch, and the value a batch gives a key
BatchKeys(batch, n) == {batch[i][1] : i \in 1..n}
BatchValue(batch, key) ==
  batch[CHOOSE i \in 1..Len(batch) : batch[i][1] = key][2]

\* the calls of initialize_settings to the table that fail: the get_item, the
\* put of a key in the middle, the put of _initialized, none
InitFailures == {0, 7, Len(DefaultOrder), NoFail}

\* AppSettingsDB.update_settings(mapping); the put number failat fails
SUpdateMany(batch, failat) ==
  /\ \E r \in {update_settings(World, batch, 1, failat)} :
       /\ SetWorld(r.w)
       /\ sop' = [OpRec("update_many") EXCEPT
                    !.batch = batch, !.failat = failat, !.raised = r.raised,
                    !.n = r.done,
                    !.set = [k \in DOMAIN @ \cup BatchKeys(batch, r.done) |->
                               IF k \in BatchKeys(batch, r.done)
                                 THEN BatchValue(batch, k) ELSE @[k]]]
  /\ UNCHANGED <<req, streak, scen, faults, ini>>

\* python init_settings.py; the call number failat to the table fails
IMain(failat) ==
  /\ \E r \in {main(World, failat)} :
       /\ SetWorld(r.w)
       /\ sop' = [OpRec("main") EXCEPT
                    !.failat = failat, !.raised = r.exit # 0, !.n = r.wrote,
                    !.scans = r.w.scans]
  /\ UNCHANGED <<req, streak, scen, faults, ini>>

\* a deployment before its first initialization: the table is empty
InitEmpty ==
  /\ users = FreshUsers(TRUE)
  /\ attempts = <<>>
  /\ tokens = <<>>
  /\ settings_table = [k \in {} |-> PyNone]
  /\ settings_cache = [k \in {} |-> PyNone]
  /\ cache_initialized = FALSE
  /\ settings_up = TRUE
  /\ now = 0
  /\ wrong_since_reset = 0
  /\ streak = 0
  /\ scen = 0
  /\ faults = 0
  /\ sop = IdleOp
  /\ ini = IdleIni
  /\ req = [p \in {1} |-> IdleReq]

NextSeed ==
  \/ \E failat \in InitFailures : IMain(failat)
  \/ \E kv \in SettingUpdates : SUpdate(kv)
  \/ \E batch \in Batches :
       \E failat \in 1..Len(batch) \cup {NoFail} : SUpdateMany(batch, failat)
  \/ SOutage

\* initialization and updates of the settings by one process, any call to the
\* table failing
SpecSeed == InitEmpty /\ [][NextSeed]_vars

\* ------------------------------------- concurrent initialization

\* lines 56-59: caller p reads the item _initialized
ICheck(p) ==
  /\ ini.pc[p] = "idle"
  /\ settings_up
  /\ ini' = IF "_initialized" \in DOMAIN settings_table
              THEN [ini EXCEPT !.pc[p] = "done"]
            ELSE [ini EXCEPT !.pc[p] = "put", !.idx[p] = 1]
  /\ UNCHANGED <<loginVars, settings_table, settings_cache, cache_initialized,
                 settings_up, sop>>

\* lines 63-68: caller p puts the next default
IPut(p) ==
  /\ ini.pc[p] = "put"
  /\ settings_up
  /\ LET key == DefaultOrder[ini.idx[p]]
     IN /\ settings_table' = put_item(settings_table, key, DEFAULT_SETTINGS[key])
        /\ ini' = [ini EXCEPT
                     !.pc[p] = IF ini.idx[p] = Len(DefaultOrder) THEN "done" ELSE @,
                     !.idx[p] = @ + 1,
                     !.seeds[key] = @ + 1,
                     !.lost = IF /\ key \in DOMAIN sop.set
                                 /\ settings_table[key] = SettingItem(sop.set[key])
                                 /\ sop.set[key] # DEFAULT_SETTINGS[key]
                                THEN @ \cup {key} ELSE @]
  /\ UNCHANGED <<loginVars, settings_cache, cache_initialized, settings_up, sop>>

NextInitConc ==
  \/ \E p \in Initializers : ICheck(p)
  \/ \E p \in Initializers : IPut(p)
  \/ \E kv \in SettingUpdates : SUpdate(kv)

\* callers of initialize_settings on an empty table, one call to the table at
\* a time, with update_setting by a third process in between
SpecInitConc == InitEmpty /\ [][NextInitConc]_vars

\* --------------------------------------------- the request handlers

\* the bodies of PUT /settings: valid entries, an unlisted key, a wrong type,
\* a value out of range, a boolean for an integer, and mixtures
PutBodies ==
  {<<>>,
   <<<<"max_failed_login_attempts", PyInt(3)>>>>,
   <<<<"email_verification_required", PyBool(FALSE)>>>>,
   <<<<"no_such_setting", PyInt(1)>>>>,
   <<<<"max_failed_login_attempts", PyStr("3")>>>>,
   <<<<"max_failed_login_attempts", PyInt(0)>>>>,
   <<<<"max_failed_login_attempts", PyBool(TRUE)>>>>,
   <<<<"max_failed_login_attempts", PyInt(3)>>,
     <<"no_such_setting", PyInt(1)>>>>,
   <<<<"no_such_setting", PyInt(1)>>,
     <<"max_failed_login_attempts", PyInt(3)>>>>,
   <<<<"email_verification_required", PyBool(FALSE)>>,
     <<"max_failed_login_attempts", PyInt(0)>>>>}

\* the requests: event['body'] is a string that is no JSON, a JSON list, or a
\* JSON object
PutEvents ==
  {[role |-> "master", none |-> FALSE, json |-> FALSE, dict |-> FALSE,
    body |-> <<>>],
   [role |-> "master", none |-> FALSE, json |-> TRUE, dict |-> FALSE,
    body |-> <<>>]}
  \cup [role : {"master"}, none : {FALSE}, json : {TRUE}, dict : {TRUE},
        body : PutBodies]

\* a request without a body: event['body'] is None
NullEvents ==
  {[role |-> "master", none |-> TRUE, json |-> FALSE, dict |-> FALSE,
    body |-> <<>>]}

\* the same from callers that are not the master: a valid update and a body
\* that is no JSON
DeniedEvents ==
  [role : Principals \ {"master"}, none : {FALSE}, json : {TRUE},
   dict : {TRUE}, body : {<<<<"max_failed_login_attempts", PyInt(3)>>>>}]
  \cup [role : Principals \ {"master"}, none : {FALSE}, json : {FALSE},
        dict : {FALSE}, body : {<<>>}]

\* PUT /settings; the put number failat of the store fails
HPut(event, failat) ==
  /\ \E r \in {settings_put(World, event, failat)} :
       /\ SetWorld(r.w)
       /\ sop' = [OpRec("put") EXCEPT
                    !.batch = event.body, !.failat = failat,
                    !.raised = r.resp.status = 500,
                    !.resp = r.resp, !.event = event,
                    !.called = r.called]
  /\ UNCHANGED <<req, streak, scen, faults, ini>>

\* GET /settings
HGet(role) ==
  /\ \E r \in {settings_get(World, [IdleOp.event EXCEPT !.role = role])} :
       /\ SetWorld(r.w)
       /\ sop' = [OpRec("get_settings") EXCEPT
                    !.resp = r.resp, !.scans = r.w.scans,
                    !.event = [IdleOp.event EXCEPT !.role = role]]
  /\ UNCHANGED <<req, streak, scen, faults, ini>>

\* POST /auth/login
HLogin(body) ==
  /\ Room(0, FaultLog, FaultTokens)
  /\ DoLogin(body, "none")
  /\ sop' = OpRec("login")
  /\ UNCHANGED <<faults, ini>>

InitHandlers ==
  /\ InitStores({5}, {30}, {TRUE}, {TRUE})
  /\ req = [p \in {1} |-> IdleReq]

NextHandlers ==
  \/ \E event \in PutEvents, failat \in {1, NoFail} : HPut(event, failat)
  \/ \E body \in HandlerBodies : HLogin(body)

\* the two handlers serving requests one at a time
SpecHandlers == InitHandlers /\ [][NextHandlers]_vars

NextAuth ==
  \/ \E event \in PutEvents \cup DeniedEvents \cup NullEvents :
       HPut(event, NoFail)
  \/ \E role \in Principals : HGet(role)
  \/ SClear

\* the settings handlers called by the master and by other callers
SpecAuth == InitHandlers /\ [][NextAuth]_vars

\* ------------------------------------------------------------ claims

\* the last request of the sequential specifications
R == req[1]
Returned == R.pc = "done"
\* the persisted policy when the last request arrived
RMax == R.cfg.max
RDur == R.cfg.dur
RReq == R.cfg.evr

LockedLater ==
  Msg("Account is locked due to too many failed login attempts. Try again later.", <<>>)
LockedForever == Msg("Account is permanently locked. Contact support.", <<>>)
NotVerified ==
  Msg("Account is not verified. Please verify your email and phone.", <<>>)

\* the lockout of the account the request read had run out when it arrived,
\* under a duration of d minutes
Elapsed(d) ==
  /\ d > 0
  /\ R.pre.locked_at # <<>>
  /\ R.t0 - R.pre.locked_at[1] >= d

\* C1: from a verified, unlocked account with counter 0 and a fixed threshold
\* N, N consecutive wrong-password logins leave the account locked with
\* locked_at stamped, and the next login with the right password gets a 403
\* and no tokens unless the duration is positive and has elapsed.
C1_LockAfterThreshold ==
  /\ streak = Threshold =>
       /\ Acct.is_locked
       /\ Acct.locked_at = <<R.t0>>
  /\ ( /\ Returned
       /\ R.streak0 = Threshold
       /\ R.found /\ verify_password(R.password, Acct.password)
       /\ ~Elapsed(RDur) ) =>
       /\ R.resp.status = 403
       /\ ~R.resp.success
       /\ R.resp.refresh = NoToken
       /\ Len(tokens) = R.tok0
       /\ Acct.is_locked

\* threshold 3, duration 0: three wrong passwords, then the right one is denied
C1_Witness ==
  /\ RMax = 3 /\ RDur = 0
  /\ Returned /\ R.streak0 = 3
  /\ R.found /\ verify_password(R.password, Acct.password)
  /\ R.resp.status = 403 /\ R.resp.message = LockedForever
  /\ Acct.is_locked

\* C2: while the duration is 0 a login on a locked account gets the permanent
\* "contact support" 403 whatever the time elapsed and the password, and
\* leaves the account (lock, counter, locked_at) and the tokens as they were.
C2_PermanentLock ==
  (Returned /\ R.found /\ R.pre.is_locked /\ RDur = 0) =>
    /\ R.resp = error_response(LockedForever, 403, "")
    /\ Acct = R.pre
    /\ Acct.is_locked
    /\ Len(tokens) = R.tok0

\* the right password, long after the lock, still denied
C2_Witness ==
  /\ Returned /\ R.found /\ R.pre.is_locked /\ RDur = 0
  /\ verify_password(R.password, R.pre.password)
  /\ R.t0 - R.pre.locked_at[1] >= 30
  /\ R.resp.status = 403

\* C3: with a duration D > 0, a login on a locked account at locked_at + D or
\* later unlocks it and resets the counter before the gates: the right
\* password succeeds at once with the counter at 0, a wrong one counts 1.
C3_AutoUnlock ==
  (Returned /\ R.found /\ R.pre.is_locked /\ Elapsed(RDur)) =>
    /\ R.unlocked
    /\ (R.pre.is_verified \/ ~RReq) =>
         /\ verify_password(R.password, R.pre.password) =>
              /\ R.resp.success /\ R.resp.status = 200
              /\ Len(tokens) = R.tok0 + 1
              /\ ~Acct.is_locked
              /\ Acct.failed_login_attempts = 0
         /\ ~verify_password(R.password, R.pre.password) =>
              /\ Acct.failed_login_attempts = 1
              /\ Acct.is_locked <=> RMax <= 1
    /\ (~R.pre.is_verified /\ RReq) =>
         /\ R.resp = error_response(NotVerified, 403, "")
         /\ ~Acct.is_locked
         /\ Acct.failed_login_attempts = 0

\* the right password exactly 30 minutes after a lock under duration 30
C3_Witness ==
  /\ Returned /\ R.found /\ R.pre.is_locked /\ RDur = 30
  /\ R.t0 - R.pre.locked_at[1] = 30
  /\ verify_password(R.password, R.pre.password)
  /\ R.resp.success
  /\ Acct.failed_login_attempts = 0 /\ ~Acct.is_locked

\* C4: the gates run in the order lockout, verification, credential: a locked
\* (not unlockable) and unverified account gets the lock denial; an unlocked,
\* unverified account under email_verification_required gets the not-verified
\* denial for any password, the account left as it was.
C4_GateOrder ==
  (Returned /\ R.found /\ ~R.pre.is_verified) =>
    /\ (R.pre.is_locked /\ ~Elapsed(RDur)) =>
         /\ R.resp.status = 403
         /\ R.resp.message = IF RDur = 0 THEN LockedForever ELSE LockedLater
         /\ Acct = R.pre
    /\ (~R.pre.is_locked /\ RReq) =>
         /\ R.resp = error_response(NotVerified, 403, "")
         /\ ~R.wrongpw
         /\ Acct = R.pre
         /\ Len(tokens) = R.tok0

\* a locked, unverified account while verification is required
C4_Witness ==
  /\ Returned /\ R.found /\ ~R.pre.is_verified /\ RReq
  /\ R.pre.is_locked /\ ~Elapsed(RDur)
  /\ R.resp.message \in {LockedForever, LockedLater}

\* C5: a login with an unknown email and a login with the known email and a
\* wrong password (account unlocked, verified, threshold not reached) get
\* responses equal in status and in message.
C5_SameResponse ==
  ( /\ Returned /\ R.email # "" /\ ~R.found
    /\ ~Acct.is_locked /\ Acct.is_verified
    /\ Acct.failed_login_attempts + 1 < Threshold ) =>
    \A pw \in Passwords :
      ~verify_password(pw, Acct.password) =>
        \E q \in {login(World, [json |-> TRUE, email |-> Acct.email,
                                password |-> pw], SourceIp, "none").l.resp} :
          /\ q.status = R.resp.status
          /\ q.message = R.resp.message

\* C6: under any interleaving of concurrent logins for the account no failed
\* attempt is undercounted, and once all requests have returned, a count of
\* wrong-password attempts since the last reset at or above the threshold
\* means the account is locked.
Quiescent == \A p \in DOMAIN req : req[p].pc \in {"idle", "done"}

C6_NoLostLockout ==
  /\ Acct.failed_login_attempts = wrong_since_reset
  /\ (Quiescent /\ wrong_since_reset >= Threshold) => Acct.is_locked

\* two wrong-password requests that read the same counter: one has counted up
\* to the threshold and is about to lock, the other has counted one less
C6_Witness ==
  /\ req[1].pc = "lock" /\ req[2].pc = "rec_fail"
  /\ req[1].user.failed_login_attempts = req[2].user.failed_login_attempts
  /\ req[1].failed_attempts = Threshold
  /\ req[2].failed_attempts = Threshold - 1

\* C7: in sequential execution a login issues tokens exactly when the account
\* exists, is not locked (or was auto-unlocked in this request), is verified
\* or verification is not required, and the password verifies; and then the
\* counter is 0, the account unlocked, a successful attempt recorded and the
\* refresh token persisted.
C7_TokensIff ==
  Returned =>
    /\ R.resp.success <=>
         /\ R.found
         /\ ~R.pre.is_locked \/ Elapsed(RDur)
         /\ R.pre.is_verified \/ ~RReq
         /\ verify_password(R.password, R.pre.password)
    /\ ~R.resp.success =>
         /\ R.resp.refresh = NoToken /\ R.resp.access = NoToken
         /\ Len(tokens) = R.tok0
    /\ R.resp.success =>
         /\ R.resp.status = 200
         /\ R.resp.refresh # NoToken /\ R.resp.access # NoToken
         /\ Acct.failed_login_attempts = 0
         /\ ~Acct.is_locked
         /\ Len(attempts) = R.log0 + 1
         /\ attempts[Len(attempts)] =
              [ip |-> R.ip, email |-> R.email, success |-> TRUE]
         /\ Len(tokens) = R.tok0 + 1
         /\ tokens[Len(tokens)].token = R.resp.refresh
         /\ tokens[Len(tokens)].user_id = Acct.user_id

\* a success that reset a counter that was not 0
C7_Witness ==
  /\ Returned /\ R.resp.success
  /\ ~R.pre.is_locked /\ R.pre.failed_login_attempts > 0
  /\ Acct.failed_login_attempts = 0

\* C8: a wrong-password login that does not lock answers 401 with remaining =
\* threshold - post-increment counter; with threshold 5 and duration 30 from
\* counter 0: remaining 4, 3, 2, 1, then the lock, the right password at once
\* denied, the right password 31 minutes later accepted with the counter at 0.
Remaining(n) == Msg("Invalid email or password. {0} attempts remaining.", <<n>>)

C8_RemainingAttempts ==
  /\ (Returned /\ R.wrongpw /\ ~Acct.is_locked) =>
       /\ Acct.failed_login_attempts =
            (IF R.unlocked THEN 0 ELSE R.pre.failed_login_attempts) + 1
       /\ R.resp = error_response(Remaining(RMax - Acct.failed_login_attempts),
                                  401, "")
  /\ scen \in 1..4 =>
       R.resp = error_response(Remaining(5 - scen), 401, "")
  /\ scen = 5 =>
       /\ R.resp = error_response(
            Msg("Account locked for {0} minutes due to {1} failed login attempts",
                <<PyInt(30), PyInt(5)>>), 403, "")
       /\ Acct.is_locked
  /\ scen = 6 =>
       /\ R.resp = error_response(LockedLater, 403, "")
       /\ Len(tokens) = R.tok0
  /\ scen = 7 =>
       /\ R.resp.success /\ R.resp.status = 200
       /\ Acct.failed_login_attempts = 0
       /\ ~Acct.is_locked

\* the end of the scenario
C8_Witness ==
  /\ scen = 7
  /\ R.resp.success
  /\ R.t0 - R.pre.locked_at[1] = 31
  /\ Acct.failed_login_attempts = 0

\* C9: every login that passes input validation appends one login-attempt
\* record (source IP, email, success flag), whatever its outcome.
C9_EveryAttemptRecorded ==
  (Returned /\ R.email # "") =>
    /\ Len(attempts) = R.log0 + 1
    /\ attempts[Len(attempts)] =
         [ip |-> R.ip, email |-> R.email, success |-> R.resp.success]

\* C10: when the login-attempt store fails to record, the request answers as
\* it does when recording succeeds: the same 401 denial, or success with the
\* tokens issued and persisted.
RecordPcs == {"rec_unknown", "rec_fail", "rec_ok"}

C10_RecordFailureHarmless ==
  (Returned /\ R.fault \in RecordPcs) =>
    /\ R.resp = R.noflt
    /\ R.resp.status \in {200, 401}
    /\ R.resp.success =>
         /\ Len(tokens) = R.tok0 + 1
         /\ tokens[Len(tokens)].token = R.resp.refresh

\* the store calls of login that go to the user store
UserStorePcs == {"get", "unlock", "inc", "lock", "reset"}

\* C11: when a user-store call of a login (lookup, unlock, increment, lock,
\* reset) fails, the request ends with the 500 "Login failed" response without
\* error code or detail, issues no token and persists no refresh token.
C11_UserStoreFailureFatal ==
  (Returned /\ R.fault \in UserStorePcs) =>
    /\ R.resp = error_response(Msg("Login failed", <<>>), 500, "")
    /\ R.resp.access = NoToken /\ R.resp.refresh = NoToken
    /\ Len(tokens) = R.tok0

\* the right password on an open account, the reset of the counter failing
C11_Witness ==
  /\ Returned /\ R.fault = "reset"
  /\ R.found /\ verify_password(R.password, R.pre.password)
  /\ R.noflt.success
  /\ R.resp.status = 500

\* the value the table holds for key, as a reload hands it to the cache
Persisted(key) == convert_dynamodb_types(settings_table[key].setting_value)

\* C12: update_setting(key, v) followed by get_setting(key) returns v, from
\* the cache at once and from the table after clear_cache() (the table
\* reachable, the key written by nobody else in between).
C12_RoundTrip ==
  ( /\ sop.kind = "get"
    /\ sop.key \in DOMAIN sop.set
    /\ sop.pre.cinit \/ sop.pre.up ) =>
    sop.ret = sop.set[sop.key]

\* an integer set, the cache cleared, the value read back through a reload
C12_Witness ==
  /\ sop.kind = "get" /\ sop.prev = "clear" /\ sop.scans = 1
  /\ sop.key = "max_failed_login_attempts"
  /\ sop.key \in DOMAIN sop.set
  /\ sop.set[sop.key] = PyInt(3)
  /\ sop.ret = PyInt(3)

\* C15: with the table unreachable and the cache not populated, get_setting
\* returns DEFAULT_SETTINGS[key] for every key of the defaults and every
\* fallback, and get_all_settings returns DEFAULT_SETTINGS.
C15_DefaultsOnOutage ==
  ( /\ ~sop.pre.cinit /\ DOMAIN sop.pre.cache = {} /\ ~sop.pre.up ) =>
    /\ (sop.kind = "get" /\ sop.key \in DOMAIN DEFAULT_SETTINGS) =>
         sop.ret = DEFAULT_SETTINGS[sop.key]
    /\ sop.kind = "getall" => sop.held.map = DEFAULT_SETTINGS

\* C16: get_setting and get_all_settings scan the table only when the cache
\* is not populated; a populated cache answers as it is, so a value written
\* out of band is not returned; after clear_cache() the next call reloads and
\* returns what the table holds.
C16_ReloadDiscipline ==
  sop.kind \in {"get", "getall"} =>
    /\ sop.pre.cinit =>
         /\ sop.scans = 0
         /\ settings_cache = sop.pre.cache
         /\ sop.kind = "getall" => sop.held.map = sop.pre.cache
         /\ (sop.kind = "get" /\ sop.key \in DOMAIN sop.pre.cache) =>
              /\ sop.ret = sop.pre.cache[sop.key]
              /\ sop.key \in sop.oob0 => sop.ret # Persisted(sop.key)
    /\ ~sop.pre.cinit =>
         /\ sop.scans = 1
         /\ sop.pre.up =>
              /\ cache_initialized
              /\ settings_cache = [k \in DOMAIN settings_table |-> Persisted(k)]
              /\ sop.kind = "getall" => sop.held.map = settings_cache
              /\ (sop.kind = "get" /\ sop.key \in DOMAIN settings_table) =>
                   sop.ret = Persisted(sop.key)

\* a value written out of band, read right after clear_cache()
C16_Witness ==
  /\ sop.kind = "get" /\ sop.prev = "clear" /\ sop.scans = 1
  /\ sop.key \in sop.oob0
  /\ sop.pre.table[sop.key].setting_value = DynamoPut(PyInt(9))
  /\ sop.ret = PyInt(9)

\* C17: changing the mapping get_all_settings returned leaves the cache, the
\* value get_setting returns for every key and the mapping a later
\* get_all_settings returns as they were.
C17_GetAllIsCopy ==
  (sop.kind = "mutate" /\ sop.prev = "getall") =>
    LET before == [World EXCEPT !.cache = sop.pre.cache]
    IN /\ settings_cache = sop.pre.cache
       /\ \A k \in GetKeys \cup {"extra"}, d \in GetDefaults :
            get_setting(World, k, d).value = get_setting(before, k, d).value
       /\ get_all_settings(World).value.map = get_all_settings(before).value.map

\* the caller has overwritten a key of the mapping of a populated cache
C17_Witness ==
  /\ sop.kind = "mutate" /\ sop.prev = "getall" /\ sop.pre.cinit
  /\ sop.key = "max_failed_login_attempts"
  /\ sop.held.map[sop.key] = PyInt(99)
  /\ settings_cache[sop.key] # PyInt(99)

\* what f holds for k: <<value>>, or <<>> when k is absent
Entry(f, k) == IF k \in DOMAIN f THEN <<f[k]>> ELSE <<>>

\* C13: once the settings are initialized (the _initialized item is
\* persisted), a further initialize_settings writes nothing: every persisted
\* setting, values set by update_setting included, stays as it was.
C13_InitializeIdempotent ==
  (sop.kind = "main" /\ "_initialized" \in DOMAIN sop.pre.table) =>
    /\ sop.n = 0
    /\ settings_table = sop.pre.table

\* initialization run again after update_setting changed the threshold
C13_Witness ==
  /\ sop.kind = "main" /\ ~sop.raised
  /\ "_initialized" \in DOMAIN sop.pre.table
  /\ sop.pre.table["max_failed_login_attempts"] = SettingItem(PyInt(3))
  /\ settings_table["max_failed_login_attempts"] = SettingItem(PyInt(3))

\* C18: when update_settings(mapping) fails to persist a key, the keys before
\* it are updated in the table and in the cache, the offending key is changed
\* in neither, and the call raises.
C18_BatchPartialFailure ==
  ( /\ sop.kind = "update_many"
    /\ ~sop.pre.up \/ sop.failat <= Len(sop.batch) ) =>
    /\ sop.raised
    /\ sop.n = IF sop.pre.up THEN sop.failat - 1 ELSE 0
    /\ \A i \in 1..sop.n :
         /\ settings_table[sop.batch[i][1]] = SettingItem(sop.batch[i][2])
         /\ settings_cache[sop.batch[i][1]] = sop.batch[i][2]
    /\ LET key == sop.batch[sop.n + 1][1]
       IN /\ Entry(settings_table, key) = Entry(sop.pre.table, key)
          /\ Entry(settings_cache, key) = Entry(sop.pre.cache, key)

\* the second key of a batch fails after the first has changed table and cache
C18_Witness ==
  /\ sop.kind = "update_many" /\ sop.raised /\ sop.pre.up
  /\ sop.n = 1 /\ sop.failat = 2
  /\ sop.pre.cinit
  /\ Entry(sop.pre.table, sop.batch[1][1]) # <<SettingItem(sop.batch[1][2])>>
  /\ settings_table[sop.batch[1][1]] = SettingItem(sop.batch[1][2])
  /\ settings_cache[sop.batch[1][1]] = sop.batch[1][2]
  /\ Entry(settings_cache, sop.batch[2][1]) # <<sop.batch[2][2]>>

\* C14: of the concurrent callers of initialize_settings on an uninitialized
\* table a single one seeds: no default is written twice, and no default
\* written by a late caller overwrites a value update_setting persisted.
C14_SingleSeeder ==
  /\ \A k \in SettingKeys : ini.seeds[k] <= 1
  /\ ini.lost = {}

\* an entry as the table of settings keys declares it: a listed key, a value
\* of the declared type, within the declared range
DeclaredValid(key, value) ==
  /\ key \in DOMAIN ALLOWED_SETTINGS
  /\ value.t = ALLOWED_SETTINGS[key]
  /\ key = "min_password_length" => value.v \in 4..128
  /\ key = "max_failed_login_attempts" => value.v \in 1..100
  /\ key = "account_lockout_duration_minutes" => value.v \in 0..10080
  /\ key = "default_public_role" => value.v \in VALID_ROLES

\* C19: a settings update mixing valid and invalid entries reports every
\* invalid entry as a field-level error and applies all its valid entries to
\* the store.
C19_PartialSuccess ==
  ( /\ sop.kind = "put" /\ sop.event.json /\ sop.event.dict
    /\ sop.pre.up /\ sop.failat = NoFail
    /\ \E i \in 1..Len(sop.batch) : DeclaredValid(sop.batch[i][1], sop.batch[i][2])
    /\ \E i \in 1..Len(sop.batch) : ~DeclaredValid(sop.batch[i][1], sop.batch[i][2]) ) =>
    \A i \in 1..Len(sop.batch) :
      LET key == sop.batch[i][1]
          value == sop.batch[i][2]
      IN IF DeclaredValid(key, value)
           THEN settings_table[key] = SettingItem(value)
         ELSE key \in DOMAIN sop.resp.details

\* C20: a request rejected as a validation failure touches no store: a login
\* whose body fails validate_login_data leaves users, attempts and tokens as
\* they were, and a settings update with an invalid entry or an empty body
\* is rejected and leaves table and cache as they were.
C20_ValidationTouchesNothing ==
  /\ (Returned /\ R.resp.code = "VALIDATION_ERROR") =>
       /\ R.resp.status = 422
       /\ ~R.found
       /\ users = R.users0
       /\ Len(attempts) = R.log0
       /\ Len(tokens) = R.tok0
  /\ (sop.kind = "put" /\ sop.event.json /\ sop.event.dict) =>
       /\ ( \/ sop.batch = <<>>
            \/ \E i \in 1..Len(sop.batch) :
                 SettingError(sop.batch[i][1], sop.batch[i][2]) # <<>> ) =>
            sop.resp.code = "VALIDATION_ERROR"
       /\ sop.resp.code = "VALIDATION_ERROR" =>
            /\ sop.resp.status \in {400, 422}
            /\ settings_table = sop.pre.table
            /\ settings_cache = sop.pre.cache
            /\ cache_initialized = sop.pre.cinit

\* a login rejected by validation after an account had a failed attempt, then
\* a settings update rejected for its second entry, the first being valid
C20_Witness ==
  /\ Returned /\ R.resp.code = "VALIDATION_ERROR"
  /\ Len(attempts) > 0 /\ Acct.failed_login_attempts > 0
  /\ sop.kind = "put" /\ sop.resp.code = "VALIDATION_ERROR"
  /\ Len(sop.batch) = 2
  /\ DeclaredValid(sop.batch[1][1], sop.batch[1][2])
  /\ settings_table[sop.batch[1][1]] # SettingItem(sop.batch[1][2])
  /\ sop.pre.cinit

\* C21: after any sequence of settings updates from the seeded defaults every
\* persisted and every cached setting has a key of the closed set and a value
\* of the declared type and range; no boolean is stored under an integer key.
C21_SettingsWellTyped ==
  /\ DOMAIN settings_table \subseteq SettingKeys
  /\ DOMAIN settings_cache \subseteq SettingKeys
  /\ \A k \in DOMAIN settings_table \cap DOMAIN ALLOWED_SETTINGS :
       DeclaredValid(k, Persisted(k))
  /\ \A k \in DOMAIN settings_cache \cap DOMAIN ALLOWED_SETTINGS :
       DeclaredValid(k, settings_cache[k])

\* C22: a get_settings or update_settings request from a caller that is not
\* the master is rejected before schema validation and before the handler,
\* and changes no persisted and no cached setting.
C22_MasterOnly ==
  (sop.kind \in {"put", "get_settings"} /\ sop.event.role # "master") =>
    /\ sop.resp = IF sop.event.role = "" THEN unauthorized_response
                  ELSE forbidden_response
    /\ DOMAIN sop.resp.data = {}
    /\ sop.scans = 0
    /\ settings_table = sop.pre.table
    /\ settings_cache = sop.pre.cache
    /\ cache_initialized = sop.pre.cinit

\* an admin sends a body that is no JSON and gets the 403 of the role check
C22_Witness ==
  /\ sop.kind = "put" /\ sop.event.role = "admin" /\ ~sop.event.json
  /\ sop.resp.status = 403

\* C23: a login on a locked account whose duration D > 0 has not run out gets
\* the "locked, try later" 403 and changes nothing on the account (counter,
\* is_locked, locked_at) and issues no token, for the right and for a wrong
\* password alike.
C23_LockedTryLater ==
  (Returned /\ R.found /\ R.pre.is_locked /\ RDur > 0 /\ ~Elapsed(RDur)) =>
    /\ R.resp = error_response(LockedLater, 403, "")
    /\ R.resp.access = NoToken /\ R.resp.refresh = NoToken
    /\ Acct.failed_login_attempts = R.pre.failed_login_attempts
    /\ Acct.is_locked = R.pre.is_locked
    /\ Acct.locked_at = R.pre.locked_at
    /\ users = R.users0
    /\ Len(tokens) = R.tok0
    /\ ~R.unlocked /\ ~R.wrongpw

\* the right password 15 or 16 minutes into a lock of 30 minutes
C23_Witness ==
  /\ Returned /\ R.found /\ R.pre.is_locked /\ RDur = 30
  /\ R.t0 - R.pre.locked_at[1] \in 1..29
  /\ verify_password(R.password, R.pre.password)
  /\ R.resp.status = 403 /\ R.resp.message = LockedLater
  /\ Acct.is_locked

\* C24: the handler wrapped by validate_request_body is called exactly when
\* the body parses as JSON and is an object with no field outside the schema
\* and every present field valid; otherwise the wrapper answers 400 with one
\* entry per offending field, the handler is not called and no setting changes.
C24_WrapperGate ==
  (sop.kind = "put" /\ sop.event.role = "master") =>
    \E parses \in {~sop.event.none /\ sop.event.json} :
    \E offending \in
         {{k \in BodyKeys(sop.event.body) :
             \/ k \notin DOMAIN update_settings_schema
             \/ SchemaField_validate(update_settings_schema[k],
                                     BodyValue(sop.event.body, k)) # <<>>}} :
    \E ok \in {parses /\ sop.event.dict /\ offending = {}} :
      /\ sop.called <=> ok
      /\ ~ok =>
           /\ sop.resp.status = 400
           /\ ~sop.resp.success
           /\ DOMAIN sop.resp.details =
                IF ~parses THEN {}
                ELSE IF ~sop.event.dict THEN {"body"}
                ELSE offending
           /\ settings_table = sop.pre.table
           /\ settings_cache = sop.pre.cache

\* C25: a login response that reports remaining attempts reports at least 1
\* and at most the threshold the request read minus 1, also when the
\* threshold is lowered below the counter between requests and when requests
\* for the account run concurrently.
C25_RemainingInRange ==
  \A p \in DOMAIN req :
    (req[p].pc = "done" /\ req[p].resp.message.fmt = Remaining(0).fmt) =>
      /\ req[p].resp.message.args[1] >= 1
      /\ req[p].resp.message.args[1] <= PyNum(req[p].max) - 1

\* a request that read the threshold 3 is about to count its wrong password;
\* the threshold was then lowered to 2 and a second wrong-password request
\* running beside it was told that 1 attempt remains
C25_Witness ==
  /\ req[1].pc = "done" /\ req[1].resp.message = Remaining(1)
  /\ req[1].max = PyInt(2)
  /\ req[2].pc = "inc" /\ req[2].max = PyInt(3)
  /\ Threshold = 2
  /\ Acct.failed_login_attempts = 1 /\ ~Acct.is_locked

\* C26: in sequential execution with a fixed threshold and every store
\* answering, between requests the counter is at most the threshold, a
\* counter at the threshold means the account is locked, and a request that
\* finds the account locked and leaves it locked does not raise its counter.
C26_CounterBounded ==
  /\ Acct.failed_login_attempts <= Threshold
  /\ Acct.failed_login_attempts >= Threshold => Acct.is_locked
  /\ (Returned /\ R.users0["u1"].is_locked /\ Acct.is_locked) =>
       Acct.failed_login_attempts <= R.users0["u1"].failed_login_attempts

\* a wrong password on an account locked at the threshold 3
C26_Witness ==
  /\ Returned /\ R.found /\ R.pre.is_locked
  /\ ~verify_password(R.password, R.pre.password)
  /\ Threshold = 3
  /\ Acct.is_locked /\ Acct.failed_login_attempts = 3
  /\ R.users0["u1"].failed_login_attempts = 3

\* C27: under concurrent logins for the account no request issues tokens once
\* another request has locked the account: the step that persists the refresh
\* token and answers 200 is not taken on a locked account, so no success
\* leaves the account locked (with its counter reset to 0).
C27_NoTokensAfterLock ==
  [][\A p \in DOMAIN req :
       (req[p].pc = "token" /\ req'[p].pc = "done" /\ req'[p].resp.success) =>
         /\ ~Acct.is_locked
         /\ ~Acct'.is_locked]_vars

\* C28: a load_settings that fails (made by get_setting, by get_all_settings
\* or by the caller) leaves the cache as it was and does not mark it populated;
\* while the cache is not marked populated every later get_setting and
\* get_all_settings scans the table again, and once the table answers the
\* next get_setting returns the value the table holds, not the fallback.
C28_FailedReloadRetried ==
  /\ (sop.kind \in {"get", "getall", "load"} /\ sop.scans > 0 /\ ~sop.pre.up) =>
       /\ sop.scans = 1
       /\ cache_initialized = sop.pre.cinit
       /\ settings_cache = sop.pre.cache
  /\ (sop.kind \in {"get", "getall"} /\ ~sop.pre.cinit) =>
       /\ sop.scans = 1
       /\ ~sop.pre.up => ~cache_initialized
       /\ (sop.failed /\ sop.pre.up) =>
            /\ cache_initialized
            /\ settings_cache = [k \in DOMAIN settings_table |-> Persisted(k)]
            /\ (sop.kind = "get" /\ sop.key \in DOMAIN settings_table) =>
                 sop.ret = Persisted(sop.key)

\* the table held 3 for the threshold, a reload failed, the table came back:
\* the get_setting that follows scans and returns 3, not the default 5 nor the
\* caller's fallback
C28_Witness ==
  /\ sop.kind = "get" /\ sop.failed /\ sop.prev = "outage"
  /\ sop.pre.up /\ sop.scans = 1
  /\ sop.key = "max_failed_login_attempts"
  /\ sop.arg = PyNone
  /\ sop.ret = PyInt(3)
  /\ DOMAIN sop.pre.cache = {}

\* C29: after every completed operation (load, get, update, failed update,
\* clear) of a process whose cache is marked populated, the cache holds for
\* every key what the table holds, as long as the table is written only by
\* this process's update_setting and the cache only by these operations; a
\* process whose populated cache misses another process's write returns the
\* stale value until its cache is cleared, and the persisted value after that.
C29_CacheCoherence ==
  /\ (cache_initialized /\ ~sop.tampered) =>
       /\ DOMAIN settings_cache = DOMAIN settings_table
       /\ \A k \in DOMAIN settings_table \ sop.oob :
            settings_cache[k] = Persisted(k)
  /\ (sop.kind = "get" /\ sop.pre.cinit /\ sop.key \in sop.oob0) =>
       /\ sop.ret = sop.pre.cache[sop.key]
       /\ sop.ret # Persisted(sop.key)
  /\ ( /\ sop.kind = "get" /\ sop.prev = "clear" /\ sop.pre.up
       /\ sop.key \in DOMAIN settings_table ) =>
       sop.ret = Persisted(sop.key)

\* this process set the threshold to 3 and verification to off, another
\* process then wrote the threshold 9: get_setting still returns 3
C29_Witness ==
  /\ sop.kind = "get" /\ sop.pre.cinit
  /\ sop.key = "max_failed_login_attempts" /\ sop.key \in sop.oob0
  /\ sop.ret = PyInt(3) /\ Persisted(sop.key) = PyInt(9)
  /\ settings_cache["email_verification_required"] = PyBool(FALSE)
  /\ Persisted("email_verification_required") = PyBool(FALSE)

\* C30: whether a lock is permanent is decided by the duration read at each
\* login, not by the duration in force when the account was locked: a lock
\* set under duration 0 is lifted by a login made once the duration is D > 0
\* and D minutes have passed since locked_at, and a lock set under D > 0 gets
\* the permanent denial from every login made while the duration is 0.
C30_DurationReadAtLogin ==
  (Returned /\ R.found /\ R.pre.is_locked) =>
    /\ (R.lockdur0 = 0 /\ Elapsed(RDur)) =>
         /\ R.unlocked
         /\ R.resp.message \notin {LockedForever, LockedLater}
         /\ ( /\ verify_password(R.password, R.pre.password)
              /\ R.pre.is_verified \/ ~RReq ) =>
              /\ R.resp.success
              /\ ~Acct.is_locked /\ Acct.failed_login_attempts = 0
    /\ (R.lockdur0 > 0 /\ RDur = 0) =>
         /\ R.resp = error_response(LockedForever, 403, "")
         /\ ~R.unlocked
         /\ Acct = R.pre
         /\ Len(tokens) = R.tok0

\* locked while the duration was 0, the duration then set to 30: the right
\* password 30 minutes or more after locked_at is accepted
C30_Witness ==
  /\ Returned /\ R.found /\ R.pre.is_locked
  /\ R.lockdur0 = 0 /\ RDur = 30
  /\ R.t0 - R.pre.locked_at[1] >= 30
  /\ verify_password(R.password, R.pre.password)
  /\ R.unlocked /\ R.resp.success
  /\ ~Acct.is_locked

====
